---- MODULE Spec2Model ----
(***************************************************************************)
(* Installed-package discovery and caching subsystem of the Scoop GUI      *)
(* backend (src-tauri): the fingerprint-validated installed-packages       *)
(* cache, the dependent package-versions cache, the commands that query    *)
(* them and the commands that invalidate them.                             *)
(*                                                                         *)
(* Every command runs as an async task.  A task's position (pc) advances   *)
(* at the await points of the source: lock acquisitions, the external      *)
(* package-manager process, and filesystem passes.                         *)
(***************************************************************************)
EXTENDS Integers, Sequences, FiniteSets, TLC

\* ------------------------------------------------------------------ bounds
MaxTicks == 1

\* --------------------------------------------------------- program constants
DebounceMs == 1000

\* --------------------------------------------------------- model universe
Tasks == {1, 2}
Pkgs == {"a", "b"}
PkgOrder == <<"a", "b">>
TargetPkgs == {"a"}
Vers == {1, 2}
TickMs == DebounceMs
StartMs == TickMs
MaxNow == StartMs + MaxTicks * TickMs
RootGood == "scoop"
RootBuckets == "buckets_only"
RootBad == "nowhere"
RootLocked == "unreadable"
Roots == {RootGood, RootBuckets, RootBad}

VARIABLES
    fs,                 \* apps tree of RootGood: package -> [vers, cur]
    now,                \* wall clock, ms since epoch
    scoop_path,         \* AppState.scoop_path
    stored_path,        \* settings store key "scoop_path"
    installed_packages, \* AppState.installed_packages: <<>> or <<cache>>
    package_versions,   \* AppState.package_versions:   <<>> or <<cache>>
    installed_lock,     \* holder of the installed_packages mutex, 0 = free
    versions_lock,      \* holder of the package_versions mutex, 0 = free
    last_refresh_time,  \* AppState.last_refresh_time
    pc,                 \* task -> position
    cmd,                \* task -> command being run
    loc,                \* task -> locals of the command
    cold_start_done,    \* COLD_START_DONE
    retry_count,        \* task -> retry_count of emit_ready_events_with_retry
    emitted,            \* events emitted so far: [event, payload]
    prefetched,         \* history: a cold-start prefetch has returned Ok
    stream_pc,          \* position of run_and_stream_command
    stream_ret,         \* its return value: <<>> or <<Result>>
    child,              \* the spawned process: [state, success]
    pipes,              \* source -> lines written by the child and not yet read
    produced,           \* history: the [source, line] the child has written, in order
    error_rx,           \* lines waiting in the error channel
    cancel_rx,          \* the cancellation oneshot: a value was sent
    finished,           \* finished events emitted so far, in order
    refresh_in_progress,\* the tray's managed Mutex<bool>
    tray_pc,            \* task -> position of the refresh task it spawned
    tray_result,        \* task -> result of its last perform_tray_refresh
    tray_menu,          \* number of menus set on the tray icon
    tray_skipped,       \* number of refresh requests that were skipped
    tray_requests,      \* number of refresh requests made
    quiet,              \* history: only installed-list queries ran since lastRet
    disturbed,          \* history: running tasks that overlapped another command
    lastRet,            \* history: list returned by the last installed-list query
    droppedFp,          \* history: fingerprint dropped by the last invalidation
    staleStored,        \* history: the cache entry was written by an overtaken query
    scoop_root_cache,   \* SCOOP_ROOT_CACHE, the process-wide memoized root: <<>> or <<path>>
    call                \* a call of one of the pure functions: arguments and result

vars == <<fs, now, scoop_path, stored_path, installed_packages, package_versions,
          installed_lock, versions_lock, last_refresh_time, pc, cmd, loc,
          quiet, disturbed, lastRet, droppedFp, staleStored, scoop_root_cache,
          cold_start_done, retry_count, emitted, prefetched,
          stream_pc, stream_ret, child, pipes, produced, error_rx, cancel_rx,
          finished, refresh_in_progress, tray_pc, tray_result, tray_menu,
          tray_skipped, tray_requests, call>>

cacheVars == <<fs, now, scoop_path, stored_path, installed_packages, package_versions,
               installed_lock, versions_lock, last_refresh_time, pc, cmd, loc,
               quiet, disturbed, lastRet, droppedFp, staleStored, scoop_root_cache>>

coldVars == <<cold_start_done, retry_count, emitted, prefetched>>

streamVars == <<stream_pc, stream_ret, child, pipes, produced, error_rx, cancel_rx,
                finished>>

trayVars == <<refresh_in_progress, tray_pc, tray_result, tray_menu, tray_skipped,
              tray_requests>>

\* the application shell around the package caches
shellVars == <<coldVars, streamVars, trayVars>>

\* ------------------------------------------------------------ option values
None == <<>>
Some(x) == <<x>>
IsSome(o) == o /= <<>>
Unwrap(o) == o[1]

\* -------------------------------------------------------------- filesystem
NoPkg == [vers |-> [v \in Vers |-> 0], cur |-> 0]

\* package directory apps/<p> exists under the given root
PackageDirExists(tree, root, p) == root = RootGood /\ tree[p].cur /= 0

\* root/apps is a directory
HasAppsDir(root) == root \in {RootGood, RootLocked}

\* fs::read_dir on the apps directory succeeds
CanListApps(root) == root /= RootLocked

\* the package directories listed under root/apps
ListAppDirs(tree, root) == {p \in Pkgs : PackageDirExists(tree, root, p)}

\* version directories of p: not named current, holding a metadata file
VersionDirs(tree, root, p) ==
    IF PackageDirExists(tree, root, p)
    THEN {v \in Vers : tree[p].vers[v] /= 0}
    ELSE {}

\* modification stamp of the active version directory of p
GetInstallModificationTime(tree, p) == tree[p].vers[tree[p].cur]

\* sorted "name:stamp" entries, prefixed by the number of directories
SortedEntries(tree, dirs) ==
    LET present == SelectSeq(PkgOrder, LAMBDA p : p \in dirs)
    IN [i \in 1..Len(present) |->
            <<present[i], GetInstallModificationTime(tree, present[i])>>]

ComputeAppsFingerprint(tree, dirs) ==
    [count |-> Cardinality(dirs), entries |-> SortedEntries(tree, dirs)]

NoFp == [count |-> -1, entries |-> <<>>]

FpNames(fp) == {fp.entries[i][1] : i \in 1..Len(fp.entries)}

\* load_package_details: Ok(record) or Err
LoadPackageDetails(tree, root, p) ==
    IF PackageDirExists(tree, root, p)
    THEN Some([name |-> p, version |-> tree[p].cur])
    ELSE None

\* the parallel scan: records of the directories whose load succeeds
ScanPackages(tree, root, dirs) ==
    {Unwrap(LoadPackageDetails(tree, root, p)) :
        p \in {q \in dirs : IsSome(LoadPackageDetails(tree, root, q))}}

\* ------------------------------------------------------------ path resolver
\* candidates are the stored path and the environment-derived root; a
\* candidate without apps and buckets is rejected
EvaluateCandidateValid(root) == root \in {RootGood, RootBuckets, RootLocked}

\* what collect_common_candidates finds: nothing, the root with apps, or a
\* root whose apps directory cannot be listed
CommonCandidates == {<<>>, <<RootGood>>, <<RootLocked>>}

\* the candidate select_best_scoop_root picks: a candidate with an apps
\* directory outscores one with buckets only, the earlier one wins a tie
SelectBestRoot(candidates) ==
    LET valid == SelectSeq(candidates, EvaluateCandidateValid)
        withApps == SelectSeq(valid, HasAppsDir)
    IN  IF valid = <<>> THEN None
        ELSE IF withApps /= <<>> THEN Some(Head(withApps))
        ELSE Some(Head(valid))

\* the best of the stored path and the common candidates
ResolveScoopRoot(stored, common) == SelectBestRoot(<<stored>> \o common)

\* resolve_scoop_root with its effects: a winner other than the stored path
\* goes through settings::set_scoop_path, which writes the store and the
\* root of the managed AppState
resolve_scoop_root(stored, current, common) ==
    LET best == ResolveScoopRoot(stored, common)
        detected == IsSome(best) /\ Unwrap(best) /= stored
    IN  [ret |-> best,
         stored_path |-> IF detected THEN Unwrap(best) ELSE stored,
         scoop_path |-> IF detected THEN Unwrap(best) ELSE current]

\* the path get_scoop_root_fallback falls back to; it is among the common
\* candidates, so it is returned only after its own evaluation failed
DefaultRoot == "C:\\scoop"

\* get_scoop_root_fallback: the memoized root if there is one, else the best
\* common candidate, else the default; the answer is memoized either way
get_scoop_root_fallback(cache, common) ==
    IF IsSome(cache) THEN [ret |-> Unwrap(cache), cache |-> cache]
    ELSE LET best == SelectBestRoot(common)
             path == IF IsSome(best) THEN Unwrap(best) ELSE DefaultRoot
         IN  [ret |-> path, cache |-> Some(path)]

\* ------------------------------------------------------------------ debounce
ShouldDebounceRefreshInclusive(t_now, last) ==
    last /= 0 /\ t_now - last <= DebounceMs

ShouldDebounceRefresh(t_now, last) ==
    IF last = 0 THEN FALSE
    ELSE (IF t_now >= last THEN t_now - last ELSE 0) < DebounceMs

\* -------------------------------------------------------------------- locals
NoRet == [kind |-> "none", val |-> {}]
Ok(v) == [kind |-> "ok", val |-> v]
Err == [kind |-> "err", val |-> {}]

NoLoc == [pkg |-> "", root |-> "", fp |-> NoFp, list |-> {}, ret |-> NoRet,
          scanned |-> FALSE, wrote |-> FALSE, debounced |-> FALSE,
          sawQuiet |-> FALSE, invalidated |-> FALSE, overtaken |-> FALSE,
          todo |-> {}, acc |-> {}, resolutions |-> 0]

\* what a finished command keeps: its result and the history flags
Finish(l, r) == [NoLoc EXCEPT !.ret = r, !.scanned = l.scanned, !.wrote = l.wrote,
                              !.sawQuiet = l.sawQuiet,
                              !.invalidated = l.invalidated, !.debounced = l.debounced,
                              !.overtaken = l.overtaken, !.resolutions = l.resolutions]

\* a scan that fails when the apps directory is missing
NoAppsError == Err

\* the scan's answer when ensure_apps_path finds no apps directory
NoAppsResult == Ok({})

\* a failed listing answered with the empty list
ListFailureIgnored == Ok({})

\* the scan's answer when fs::read_dir fails on the apps directory
ListFailure == Err

\* no pure function is being called
NoCall == [fn |-> "none"]

\* the program state after construction
Sources == {"stdout", "stderr"}

NoChild == [state |-> "none", success |-> FALSE]

ProgramInit ==
    /\ fs = [p \in Pkgs |-> IF p = "a"
                            THEN [vers |-> [v \in Vers |-> IF v = 1 THEN 100 ELSE 0],
                                  cur |-> 1]
                            ELSE [vers |-> [v \in Vers |-> 100 * v], cur |-> 2]]
    /\ now = StartMs
    /\ scoop_path = RootGood
    /\ stored_path = RootGood
    /\ installed_packages = None
    /\ package_versions = None
    /\ installed_lock = 0
    /\ versions_lock = 0
    /\ last_refresh_time = 0
    /\ pc = [t \in Tasks |-> "idle"]
    /\ cmd = [t \in Tasks |-> "none"]
    /\ loc = [t \in Tasks |-> NoLoc]
    /\ quiet = FALSE
    /\ disturbed = {}
    /\ lastRet = None
    /\ droppedFp = None
    /\ staleStored = FALSE
    /\ scoop_root_cache = None
    /\ cold_start_done = FALSE
    /\ retry_count = [t \in Tasks |-> 0]
    /\ emitted = {}
    /\ prefetched = FALSE
    /\ stream_pc = "idle"
    /\ stream_ret = None
    /\ child = NoChild
    /\ pipes = [source \in Sources |-> <<>>]
    /\ produced = <<>>
    /\ error_rx = <<>>
    /\ cancel_rx = FALSE
    /\ finished = <<>>
    /\ refresh_in_progress = FALSE
    /\ tray_pc = [t \in Tasks |-> "idle"]
    /\ tray_result = [t \in Tasks |-> "none"]
    /\ tray_menu = 0
    /\ tray_skipped = 0
    /\ tray_requests = 0

Init == ProgramInit /\ call = NoCall

\* ------------------------------------------------------------------ helpers
OthersIdle(t) == \A u \in Tasks \ {t} : pc[u] = "idle"

\* a command other than the installed-list query begins: history is reset
Disturb ==
    /\ quiet' = FALSE
    /\ lastRet' = None
    /\ disturbed' = {u \in Tasks : pc[u] /= "idle"}

KeepHist == UNCHANGED <<quiet, disturbed, lastRet>>

Begin(t, c) == [NoLoc EXCEPT !.sawQuiet = quiet /\ c = "get_installed_packages_full"]

\* ------------------------------------------- scan_installed_packages_internal
\* ensure_apps_path, the directory listing and the fingerprint
EnsureAppsPath(t, base) ==
    IF HasAppsDir(scoop_path)
    THEN /\ IF CanListApps(scoop_path)
            THEN /\ loc' = [loc EXCEPT ![t] =
                        [base EXCEPT !.root = scoop_path,
                                     !.fp = ComputeAppsFingerprint(fs, ListAppDirs(fs, scoop_path))]]
                 /\ pc' = [pc EXCEPT ![t] = "check_cache"]
            ELSE /\ loc' = [loc EXCEPT ![t] = Finish(base, ListFailure)]
                 /\ pc' = [pc EXCEPT ![t] = "done"]
         /\ UNCHANGED <<scoop_path, stored_path>>
    ELSE \E common \in CommonCandidates :
         LET resolution == resolve_scoop_root(stored_path, scoop_path, common)
             resolved == resolution.ret
             tried == [base EXCEPT !.resolutions = base.resolutions + 1]
         IN
         IF IsSome(resolved) /\ Unwrap(resolved) /= scoop_path
         THEN /\ scoop_path' = Unwrap(resolved)
              /\ stored_path' = resolution.stored_path
              /\ loc' = [loc EXCEPT ![t] = [tried EXCEPT !.root = Unwrap(resolved)]]
              /\ pc' = [pc EXCEPT ![t] = "refresh_path_lock"]
         ELSE /\ loc' = [loc EXCEPT ![t] = Finish(tried, NoAppsResult)]
              /\ pc' = [pc EXCEPT ![t] = "done"]
              /\ stored_path' = resolution.stored_path
              /\ scoop_path' = resolution.scoop_path

\* refresh_scoop_path_if_needed after the path changed: drop the installed cache
RefreshScoopPathLock(t) ==
    /\ pc[t] = "refresh_path_lock"
    /\ installed_lock = 0
    /\ installed_packages' = None
    /\ staleStored' = FALSE
    /\ IF HasAppsDir(loc[t].root) /\ CanListApps(loc[t].root)
       THEN /\ loc' = [loc EXCEPT ![t].fp =
                    ComputeAppsFingerprint(fs, ListAppDirs(fs, loc[t].root))]
            /\ pc' = [pc EXCEPT ![t] = "check_cache"]
       ELSE /\ loc' = [loc EXCEPT ![t] =
                    Finish(loc[t], IF HasAppsDir(loc[t].root) THEN ListFailure
                                   ELSE NoAppsResult)]
            /\ pc' = [pc EXCEPT ![t] = "done"]
    /\ UNCHANGED <<call, shellVars, scoop_root_cache, fs, now, scoop_path, stored_path, package_versions, installed_lock,
                   versions_lock, last_refresh_time, cmd, quiet, disturbed, lastRet, droppedFp>>

\* check_cache
CacheHitInverted(cache, fp) == IsSome(cache) /\ Unwrap(cache).fingerprint /= fp

CacheHit(cache, fp) == IsSome(cache) /\ Unwrap(cache).fingerprint = fp

\* a cache_guard that outlives check_cache
GuardKeptAfterCheckCache(t) == t

\* cache_guard is dropped when check_cache returns: the mutex is free again
GuardAfterCheckCache(t) == 0

CheckCache(t) ==
    /\ pc[t] = "check_cache"
    /\ installed_lock = 0
    /\ IF CacheHit(installed_packages, loc[t].fp)
       THEN /\ loc' = [loc EXCEPT ![t] =
                        Finish(loc[t], Ok(Unwrap(installed_packages).packages))]
            /\ pc' = [pc EXCEPT ![t] = "done"]
       ELSE /\ pc' = [pc EXCEPT ![t] = "scan"]
            /\ UNCHANGED loc
    /\ installed_lock' = GuardAfterCheckCache(t)
    /\ UNCHANGED <<call, shellVars, scoop_root_cache, fs, now, scoop_path, stored_path, installed_packages, package_versions,
                   versions_lock, last_refresh_time, cmd,
                   quiet, disturbed, lastRet, droppedFp, staleStored>>

\* the parallel load of every listed package directory
ScanStep(t) ==
    /\ pc[t] = "scan"
    /\ loc' = [loc EXCEPT ![t].list = ScanPackages(fs, loc[t].root, FpNames(loc[t].fp)),
                          ![t].scanned = TRUE]
    /\ pc' = [pc EXCEPT ![t] = "update_cache"]
    /\ UNCHANGED <<call, shellVars, scoop_root_cache, fs, now, scoop_path, stored_path, installed_packages, package_versions,
                   installed_lock, versions_lock, last_refresh_time, cmd,
                   quiet, disturbed, lastRet, droppedFp, staleStored>>

\* update_cache
NewInstalledCacheSkipped(packages, fp) == installed_packages

NewInstalledCache(packages, fp) == Some([fingerprint |-> fp, packages |-> packages])

UpdateCache(t) ==
    /\ pc[t] = "update_cache"
    /\ installed_lock = 0
    /\ installed_packages' = NewInstalledCache(loc[t].list, loc[t].fp)
    /\ loc' = [loc EXCEPT ![t] = Finish([loc[t] EXCEPT !.wrote = TRUE], Ok(loc[t].list))]
    /\ pc' = [pc EXCEPT ![t] = "done"]
    /\ droppedFp' = None
    /\ staleStored' = loc[t].overtaken
    /\ UNCHANGED <<call, shellVars, scoop_root_cache, fs, now, scoop_path, stored_path, package_versions, installed_lock,
                   versions_lock, last_refresh_time, cmd, quiet, disturbed, lastRet>>

\* get_installed_packages_full
GetInstalledPackagesFull(t) ==
    /\ pc[t] = "idle"
    /\ cmd' = [cmd EXCEPT ![t] = "get_installed_packages_full"]
    /\ EnsureAppsPath(t, Begin(t, "get_installed_packages_full"))
    /\ disturbed' = IF OthersIdle(t) THEN disturbed \ {t} ELSE disturbed \cup {t}
    /\ UNCHANGED <<call, shellVars, scoop_root_cache, fs, now, installed_packages, package_versions, installed_lock,
                   versions_lock, last_refresh_time, quiet, lastRet, droppedFp, staleStored>>

\* ----------------------------------------------- invalidate_installed_cache
\* first await: the installed lock is taken and the cache dropped
ClearedInstalledKept(cache) == cache

ClearedInstalled(cache) == None

InvalidateInstalled(t) ==
    /\ pc[t] = "invalidate"
    /\ installed_lock = 0
    /\ installed_lock' = t
    /\ installed_packages' = ClearedInstalled(installed_packages)
    /\ staleStored' = FALSE
    /\ loc' = [loc EXCEPT ![t].fp = IF IsSome(installed_packages)
                                    THEN Unwrap(installed_packages).fingerprint
                                    ELSE NoFp]
    /\ pc' = [pc EXCEPT ![t] = "invalidate_versions"]
    /\ UNCHANGED <<call, shellVars, scoop_root_cache, fs, now, scoop_path, stored_path, package_versions, versions_lock,
                   last_refresh_time, cmd, quiet, disturbed, lastRet, droppedFp>>

\* where a command goes once invalidate_installed_cache has returned
AfterInvalidate(c) == IF c = "refresh_installed_packages" THEN "rescan" ELSE "done"

\* a scan that has passed its cache check and not yet written its result
BetweenCheckAndWrite(u) == pc[u] \in {"scan", "update_cache"}

\* second await: the versions lock is taken, the versions cache dropped, both released
ClearedVersions(cache) == None

InvalidateVersions(t) ==
    /\ pc[t] = "invalidate_versions"
    /\ versions_lock = 0
    /\ package_versions' = ClearedVersions(package_versions)
    /\ installed_lock' = 0
    /\ droppedFp' = Some(loc[t].fp)
    /\ loc' = [u \in Tasks |->
                IF u = t THEN [loc[t] EXCEPT !.fp = NoFp, !.invalidated = TRUE]
                ELSE IF BetweenCheckAndWrite(u) THEN [loc[u] EXCEPT !.overtaken = TRUE]
                ELSE loc[u]]
    /\ pc' = [pc EXCEPT ![t] = AfterInvalidate(cmd[t])]
    /\ UNCHANGED <<call, shellVars, scoop_root_cache, fs, now, scoop_path, stored_path, installed_packages, versions_lock,
                   last_refresh_time, cmd, quiet, disturbed, lastRet, staleStored>>

\* --------------------------------------------------------------- completion
Return(t) ==
    /\ pc[t] = "done"
    /\ cmd[t] /= "run_cold_start"
    /\ pc' = [pc EXCEPT ![t] = "idle"]
    /\ cmd' = [cmd EXCEPT ![t] = "none"]
    /\ loc' = [loc EXCEPT ![t] = NoLoc]
    /\ IF cmd[t] = "get_installed_packages_full"
       THEN /\ quiet' = (OthersIdle(t) /\ t \notin disturbed)
            /\ lastRet' = IF OthersIdle(t) /\ t \notin disturbed
                           THEN Some(loc[t].ret.val) ELSE None
            /\ disturbed' = disturbed \ {t}
       ELSE /\ UNCHANGED <<quiet, lastRet>>
            /\ disturbed' = disturbed \ {t}
    /\ UNCHANGED <<call, shellVars, scoop_root_cache, fs, now, scoop_path, stored_path, installed_packages, package_versions,
                   installed_lock, versions_lock, last_refresh_time, droppedFp, staleStored>>

\* ------------------------------------------------- refresh_installed_packages
\* should_debounce_refresh; when not debounced, update_refresh_time follows
RefreshInstalledPackages(t) ==
    /\ pc[t] = "idle"
    /\ cmd' = [cmd EXCEPT ![t] = "refresh_installed_packages"]
    /\ IF ShouldDebounceRefresh(now, last_refresh_time)
       THEN /\ pc' = [pc EXCEPT ![t] = "debounce_lock"]
            /\ loc' = [loc EXCEPT ![t] = [NoLoc EXCEPT !.debounced = TRUE]]
            /\ UNCHANGED last_refresh_time
       ELSE /\ last_refresh_time' = now
            /\ pc' = [pc EXCEPT ![t] = "invalidate"]
            /\ loc' = [loc EXCEPT ![t] = NoLoc]
    /\ Disturb
    /\ UNCHANGED <<call, shellVars, scoop_root_cache, fs, now, scoop_path, stored_path, installed_packages, package_versions,
                   installed_lock, versions_lock, droppedFp, staleStored>>

\* a debounced answer that restarts the debounce window
RefreshTimeRestarted(last, t_now) == t_now

\* the debounced answer returns before update_refresh_time is reached
RefreshTimeAfterDebounce(last, t_now) == last

\* the debounce branch: return the cached list when there is one
DebounceLock(t) ==
    /\ pc[t] = "debounce_lock"
    /\ installed_lock = 0
    /\ IF IsSome(installed_packages)
       THEN /\ loc' = [loc EXCEPT ![t] =
                        Finish(loc[t], Ok(Unwrap(installed_packages).packages))]
            /\ pc' = [pc EXCEPT ![t] = "done"]
            /\ last_refresh_time' = RefreshTimeAfterDebounce(last_refresh_time, now)
       ELSE /\ last_refresh_time' = now
            /\ pc' = [pc EXCEPT ![t] = "invalidate"]
            /\ UNCHANGED loc
    /\ UNCHANGED <<call, shellVars, scoop_root_cache, fs, now, scoop_path, stored_path, installed_packages, package_versions,
                   installed_lock, versions_lock, cmd, quiet, disturbed, lastRet, droppedFp, staleStored>>

\* the rescan that follows the invalidation of a forced refresh
Rescan(t) ==
    /\ pc[t] = "rescan"
    /\ EnsureAppsPath(t, loc[t])
    /\ UNCHANGED <<call, shellVars, scoop_root_cache, fs, now, installed_packages, package_versions, installed_lock,
                   versions_lock, last_refresh_time, cmd, quiet, disturbed, lastRet, droppedFp, staleStored>>

\* ------------------------------------------------ the package-manager process
CanTick == now + TickMs <= MaxNow

Stamp == now + TickMs

\* scoop install p: a first version directory and the current link
CliInstall(tree, p) ==
    IF tree[p].cur = 0
    THEN [tree EXCEPT ![p] = [vers |-> [v \in Vers |-> IF v = 1 THEN Stamp ELSE 0],
                              cur |-> 1]]
    ELSE tree

\* scoop uninstall p: the package directory is removed
CliUninstall(tree, p) == [tree EXCEPT ![p] = NoPkg]

\* scoop update p: a newer version directory, current moved to it
CliUpdate(tree, p) ==
    IF tree[p].cur /= 0 /\ tree[p].vers[2] = 0
    THEN [tree EXCEPT ![p].vers[2] = Stamp, ![p].cur = 2]
    ELSE tree

\* scoop update *
CliUpdateAll(tree) ==
    [p \in Pkgs |-> CliUpdate(tree, p)[p]]

\* execute_scoop: the process applies its effect or not, and reports success or failure
\* (failure covers a non-zero exit, an error line in the output and cancellation)
ExecuteScoop(after, applied, ok) ==
    /\ ok \in BOOLEAN
    /\ IF applied /\ after /= fs
       THEN CanTick /\ fs' = after /\ now' = Stamp
       ELSE UNCHANGED <<fs, now>>

\* install_package / uninstall_package: `?` on the result, then the invalidation
\* (trigger_auto_cleanup, called last by these commands, returns at once while
\* the autoCleanupEnabled setting has its default, false)
MutatingInvalidates(c) == c \in {"install_package", "uninstall_package"}

NextAfterCli(c, ok) == IF ok /\ MutatingInvalidates(c) THEN "invalidate" ELSE "done"

RunCli(t, c, p, after, applied, ok) ==
    /\ pc[t] = "idle"
    /\ cmd' = [cmd EXCEPT ![t] = c]
    /\ ExecuteScoop(after, applied, ok)
    /\ pc' = [pc EXCEPT ![t] = NextAfterCli(c, ok)]
    /\ loc' = [loc EXCEPT ![t] = [NoLoc EXCEPT !.ret = IF ok THEN Ok({}) ELSE Err]]
    /\ Disturb
    /\ UNCHANGED <<call, shellVars, scoop_root_cache, scoop_path, stored_path, installed_packages, package_versions,
                   installed_lock, versions_lock, last_refresh_time, droppedFp, staleStored>>

InstallPackage(t) ==
    \E p \in TargetPkgs, applied \in BOOLEAN, ok \in BOOLEAN :
        RunCli(t, "install_package", p, CliInstall(fs, p), applied, ok)

UninstallPackage(t) ==
    \E p \in TargetPkgs, applied \in BOOLEAN, ok \in BOOLEAN :
        RunCli(t, "uninstall_package", p, CliUninstall(fs, p), applied, ok)

UpdatePackage(t) ==
    \E p \in TargetPkgs, applied \in BOOLEAN, ok \in BOOLEAN :
        RunCli(t, "update_package", p, CliUpdate(fs, p), applied, ok)

UpdateAllPackages(t) ==
    \E applied \in BOOLEAN, ok \in BOOLEAN :
        RunCli(t, "update_all_packages", "", CliUpdateAll(fs), applied, ok)

UpdateAllPackagesHeadless(t) ==
    \E applied \in BOOLEAN, ok \in BOOLEAN :
        RunCli(t, "update_all_packages_headless", "", CliUpdateAll(fs), applied, ok)

ClearPackageCache(t) ==
    \E p \in TargetPkgs, ok \in BOOLEAN :
        RunCli(t, "clear_package_cache", p, fs, FALSE, ok)

\* ------------------------------------------------------ get_package_versions
VersionsCacheValidAnyFingerprint(versions, installed) ==
    IsSome(versions) /\ IsSome(installed)

\* the cached versions are valid: both caches present under one fingerprint
VersionsCacheValid(versions, installed) ==
    /\ IsSome(versions)
    /\ IsSome(installed)
    /\ Unwrap(installed).fingerprint = Unwrap(versions).fingerprint

VersionsHit(versions, installed, p) ==
    /\ VersionsCacheValid(versions, installed)
    /\ p \in DOMAIN Unwrap(versions).versions_map

\* cache miss: the fresh scan of the package directory
VersionsFreshScan(t, l) ==
    IF PackageDirExists(fs, l.root, l.pkg)
    THEN /\ loc' = [loc EXCEPT ![t] = [l EXCEPT !.list = VersionDirs(fs, l.root, l.pkg),
                                                !.scanned = TRUE]]
         /\ pc' = [pc EXCEPT ![t] = "versions_update"]
    ELSE /\ loc' = [loc EXCEPT ![t] = Finish(l, Err)]
         /\ pc' = [pc EXCEPT ![t] = "done"]

\* first block: the versions lock; an absent cache is a miss at once
GetPackageVersions(t) ==
    /\ pc[t] = "idle"
    /\ versions_lock = 0
    /\ cmd' = [cmd EXCEPT ![t] = "get_package_versions"]
    /\ \E p \in Pkgs :
         LET l == [NoLoc EXCEPT !.pkg = p, !.root = scoop_path] IN
         IF IsSome(package_versions)
         THEN /\ versions_lock' = t
              /\ pc' = [pc EXCEPT ![t] = "versions_check"]
              /\ loc' = [loc EXCEPT ![t] = l]
         ELSE /\ UNCHANGED versions_lock
              /\ VersionsFreshScan(t, l)
    /\ Disturb
    /\ UNCHANGED <<call, shellVars, scoop_root_cache, fs, now, scoop_path, stored_path, installed_packages, package_versions,
                   installed_lock, last_refresh_time, droppedFp, staleStored>>

\* the installed lock is taken while the versions lock is held; fingerprint cross-check
VersionsCheck(t) ==
    /\ pc[t] = "versions_check"
    /\ installed_lock = 0
    /\ versions_lock' = 0
    /\ IF VersionsHit(package_versions, installed_packages, loc[t].pkg)
       THEN /\ loc' = [loc EXCEPT ![t] =
                    Finish(loc[t], Ok(Unwrap(package_versions).versions_map[loc[t].pkg]))]
            /\ pc' = [pc EXCEPT ![t] = "done"]
       ELSE VersionsFreshScan(t, loc[t])
    /\ UNCHANGED <<call, shellVars, scoop_root_cache, fs, now, scoop_path, stored_path, installed_packages, package_versions,
                   installed_lock, last_refresh_time, cmd, quiet, disturbed, lastRet, droppedFp, staleStored>>

\* update block: the versions lock
VersionsUpdateLock(t) ==
    /\ pc[t] = "versions_update"
    /\ versions_lock = 0
    /\ versions_lock' = t
    /\ pc' = [pc EXCEPT ![t] = "versions_store"]
    /\ UNCHANGED <<call, shellVars, scoop_root_cache, fs, now, scoop_path, stored_path, installed_packages, package_versions,
                   installed_lock, last_refresh_time, cmd, loc, quiet, disturbed, lastRet, droppedFp, staleStored>>

\* the versions cache written by a get_package_versions miss
StoredVersions(old, installed, p, dirs) ==
    IF IsSome(installed)
    THEN Some([fingerprint |-> Unwrap(installed).fingerprint,
               versions_map |-> [q \in {p} |-> dirs]])
    ELSE old

\* update block: the installed lock, then the store
VersionsStore(t) ==
    /\ pc[t] = "versions_store"
    /\ installed_lock = 0
    /\ package_versions' = StoredVersions(package_versions, installed_packages,
                                          loc[t].pkg, loc[t].list)
    /\ versions_lock' = 0
    /\ loc' = [loc EXCEPT ![t] = Finish(loc[t], Ok(loc[t].list))]
    /\ pc' = [pc EXCEPT ![t] = "done"]
    /\ UNCHANGED <<call, shellVars, scoop_root_cache, fs, now, scoop_path, stored_path, installed_packages, installed_lock,
                   last_refresh_time, cmd, quiet, disturbed, lastRet, droppedFp, staleStored>>

\* ---------------------------------------------------- get_versioned_packages
PkgIdx(p) == CHOOSE i \in 1..Len(PkgOrder) : PkgOrder[i] = p

MinPkg(S) == CHOOSE p \in S : \A q \in S : PkgIdx(p) <= PkgIdx(q)

\* names whose cached version list has more than one entry
VersionedFromCache(versions) ==
    {p \in DOMAIN Unwrap(versions).versions_map :
        Cardinality(Unwrap(versions).versions_map[p]) > 1}

\* the loop over the package directories, up to the next package with more than
\* one version directory (whose entry is then stored under the locks) or to the end
VersionedLoop(t, l) ==
    LET multi == {p \in l.todo : Cardinality(VersionDirs(fs, l.root, p)) > 1} IN
    IF multi = {}
    THEN /\ loc' = [loc EXCEPT ![t] = Finish([l EXCEPT !.scanned = TRUE], Ok(l.acc))]
         /\ pc' = [pc EXCEPT ![t] = "done"]
    ELSE LET p == MinPkg(multi) IN
         /\ loc' = [loc EXCEPT ![t] =
                [l EXCEPT !.pkg = p, !.list = VersionDirs(fs, l.root, p),
                          !.acc = @ \cup {p}, !.scanned = TRUE,
                          !.todo = {q \in l.todo : PkgIdx(q) > PkgIdx(p)}]]
         /\ pc' = [pc EXCEPT ![t] = "versioned_update"]

GetVersionedPackages(t) ==
    /\ pc[t] = "idle"
    /\ versions_lock = 0
    /\ cmd' = [cmd EXCEPT ![t] = "get_versioned_packages"]
    /\ IF IsSome(package_versions)
       THEN /\ versions_lock' = t
            /\ pc' = [pc EXCEPT ![t] = "versioned_check"]
            /\ loc' = [loc EXCEPT ![t] = [NoLoc EXCEPT !.root = scoop_path]]
       ELSE /\ UNCHANGED versions_lock
            /\ VersionedLoop(t, [NoLoc EXCEPT !.root = scoop_path,
                                              !.todo = ListAppDirs(fs, scoop_path)])
    /\ Disturb
    /\ UNCHANGED <<call, shellVars, scoop_root_cache, fs, now, scoop_path, stored_path, installed_packages, package_versions,
                   installed_lock, last_refresh_time, droppedFp, staleStored>>

VersionedCheck(t) ==
    /\ pc[t] = "versioned_check"
    /\ installed_lock = 0
    /\ versions_lock' = 0
    /\ IF VersionsCacheValid(package_versions, installed_packages)
       THEN /\ loc' = [loc EXCEPT ![t] =
                        Finish(loc[t], Ok(VersionedFromCache(package_versions)))]
            /\ pc' = [pc EXCEPT ![t] = "done"]
       ELSE VersionedLoop(t, [loc[t] EXCEPT !.todo = ListAppDirs(fs, loc[t].root)])
    /\ UNCHANGED <<call, shellVars, scoop_root_cache, fs, now, scoop_path, stored_path, installed_packages, package_versions,
                   installed_lock, last_refresh_time, cmd, quiet, disturbed, lastRet, droppedFp, staleStored>>

VersionedUpdateLock(t) ==
    /\ pc[t] = "versioned_update"
    /\ versions_lock = 0
    /\ versions_lock' = t
    /\ pc' = [pc EXCEPT ![t] = "versioned_store"]
    /\ UNCHANGED <<call, shellVars, scoop_root_cache, fs, now, scoop_path, stored_path, installed_packages, package_versions,
                   installed_lock, last_refresh_time, cmd, loc, quiet, disturbed, lastRet, droppedFp, staleStored>>

\* p's entry inserted into the versions cache, created when absent
MapInsert(m, p, dirs) ==
    [q \in DOMAIN m \cup {p} |-> IF q = p THEN dirs ELSE m[q]]

InsertedVersions(old, installed, p, dirs) ==
    IF IsSome(installed)
    THEN IF IsSome(old)
         THEN Some([fingerprint |-> Unwrap(old).fingerprint,
                    versions_map |-> MapInsert(Unwrap(old).versions_map, p, dirs)])
         ELSE Some([fingerprint |-> Unwrap(installed).fingerprint,
                    versions_map |-> [q \in {p} |-> dirs]])
    ELSE old

\* the store of one entry, then the loop goes on
VersionedStore(t) ==
    /\ pc[t] = "versioned_store"
    /\ installed_lock = 0
    /\ package_versions' = InsertedVersions(package_versions, installed_packages,
                                            loc[t].pkg, loc[t].list)
    /\ versions_lock' = 0
    /\ VersionedLoop(t, [loc[t] EXCEPT !.pkg = "", !.list = {}])
    /\ UNCHANGED <<call, shellVars, scoop_root_cache, fs, now, scoop_path, stored_path, installed_packages, installed_lock,
                   last_refresh_time, cmd, quiet, disturbed, lastRet, droppedFp, staleStored>>

\* ---------------------------------------------------- switch_package_version
SwitchPackageVersion(t) ==
    /\ pc[t] = "idle"
    /\ cmd' = [cmd EXCEPT ![t] = "switch_package_version"]
    /\ \E p \in TargetPkgs, v \in Vers :
         IF PackageDirExists(fs, scoop_path, p) /\ v \in VersionDirs(fs, scoop_path, p)
         THEN /\ fs' = [fs EXCEPT ![p].cur = v]
              /\ loc' = [loc EXCEPT ![t] = [NoLoc EXCEPT !.ret = Ok({})]]
         ELSE /\ UNCHANGED fs
              /\ loc' = [loc EXCEPT ![t] = [NoLoc EXCEPT !.ret = Err]]
    /\ pc' = [pc EXCEPT ![t] = "done"]
    /\ Disturb
    /\ UNCHANGED <<call, shellVars, scoop_root_cache, now, scoop_path, stored_path, installed_packages, package_versions,
                   installed_lock, versions_lock, last_refresh_time, droppedFp, staleStored>>

\* --------------------------------------------------- settings::set_scoop_path
SetScoopPath(t) ==
    /\ pc[t] = "idle"
    /\ cmd' = [cmd EXCEPT ![t] = "set_scoop_path"]
    /\ \E path \in Roots :
         /\ stored_path' = path
         /\ scoop_path' = path
    /\ loc' = [loc EXCEPT ![t] = [NoLoc EXCEPT !.ret = Ok({})]]
    /\ pc' = [pc EXCEPT ![t] = "done"]
    /\ Disturb
    /\ UNCHANGED <<call, shellVars, scoop_root_cache, fs, now, installed_packages, package_versions, installed_lock,
                   versions_lock, last_refresh_time, droppedFp, staleStored>>

\* ------------------------------------------- utils::get_scoop_app_shortcuts
\* the legacy wrapper: the root comes from get_scoop_root_fallback
GetScoopAppShortcuts(t) ==
    /\ pc[t] = "idle"
    /\ cmd' = [cmd EXCEPT ![t] = "get_scoop_app_shortcuts"]
    /\ \E common \in CommonCandidates :
         LET fallback == get_scoop_root_fallback(scoop_root_cache, common)
         IN  /\ scoop_root_cache' = fallback.cache
             /\ loc' = [loc EXCEPT ![t] = [NoLoc EXCEPT !.root = fallback.ret,
                                                        !.ret = Ok({})]]
    /\ pc' = [pc EXCEPT ![t] = "done"]
    /\ Disturb
    /\ UNCHANGED <<call, shellVars, fs, now, scoop_path, stored_path, installed_packages,
                   package_versions, installed_lock, versions_lock, last_refresh_time,
                   droppedFp, staleStored>>

\* ------------------------------------------------------------------- time
Tick ==
    /\ CanTick
    /\ now' = now + TickMs
    /\ UNCHANGED <<call, shellVars, scoop_root_cache, fs, scoop_path, stored_path, installed_packages, package_versions,
                   installed_lock, versions_lock, last_refresh_time, pc, cmd, loc,
                   quiet, disturbed, lastRet, droppedFp, staleStored>>

Next ==
    \/ \E t \in Tasks : GetInstalledPackagesFull(t)
    \/ \E t \in Tasks : RefreshScoopPathLock(t)
    \/ \E t \in Tasks : CheckCache(t)
    \/ \E t \in Tasks : ScanStep(t)
    \/ \E t \in Tasks : UpdateCache(t)
    \/ \E t \in Tasks : InvalidateInstalled(t)
    \/ \E t \in Tasks : InvalidateVersions(t)
    \/ \E t \in Tasks : RefreshInstalledPackages(t)
    \/ \E t \in Tasks : DebounceLock(t)
    \/ \E t \in Tasks : Rescan(t)
    \/ \E t \in Tasks : InstallPackage(t)
    \/ \E t \in Tasks : UninstallPackage(t)
    \/ \E t \in Tasks : UpdatePackage(t)
    \/ \E t \in Tasks : UpdateAllPackages(t)
    \/ \E t \in Tasks : UpdateAllPackagesHeadless(t)
    \/ \E t \in Tasks : ClearPackageCache(t)
    \/ \E t \in Tasks : GetPackageVersions(t)
    \/ \E t \in Tasks : VersionsCheck(t)
    \/ \E t \in Tasks : VersionsUpdateLock(t)
    \/ \E t \in Tasks : VersionsStore(t)
    \/ \E t \in Tasks : GetVersionedPackages(t)
    \/ \E t \in Tasks : VersionedCheck(t)
    \/ \E t \in Tasks : VersionedUpdateLock(t)
    \/ \E t \in Tasks : VersionedStore(t)
    \/ \E t \in Tasks : SwitchPackageVersion(t)
    \/ \E t \in Tasks : SetScoopPath(t)
    \/ \E t \in Tasks : GetScoopAppShortcuts(t)
    \/ \E t \in Tasks : Return(t)
    \/ Tick

Spec == Init /\ [][Next]_vars

\* ------------------------------------------------ focused specifications
\* the steps shared by every installed-list scan
ScanSteps(t) == CheckCache(t) \/ ScanStep(t) \/ UpdateCache(t)

InvalidateSteps(t) == InvalidateInstalled(t) \/ InvalidateVersions(t)

\* the installed-packages cache: queries, forced refreshes, the commands that
\* change the apps tree
NextCache ==
    \/ \E t \in Tasks : GetInstalledPackagesFull(t)
    \/ \E t \in Tasks : ScanSteps(t)
    \/ \E t \in Tasks : InvalidateSteps(t)
    \/ \E t \in Tasks : RefreshInstalledPackages(t)
    \/ \E t \in Tasks : DebounceLock(t)
    \/ \E t \in Tasks : Rescan(t)
    \/ \E t \in Tasks : InstallPackage(t)
    \/ \E t \in Tasks : UninstallPackage(t)
    \/ \E t \in Tasks : UpdatePackage(t)
    \/ \E t \in Tasks : SwitchPackageVersion(t)
    \/ \E t \in Tasks : Return(t)
    \/ Tick

SpecCache == Init /\ [][NextCache]_vars

\* the package-versions cache and its coupling to the installed cache
NextVersions ==
    \/ \E t \in Tasks : GetInstalledPackagesFull(t)
    \/ \E t \in Tasks : ScanSteps(t)
    \/ \E t \in Tasks : InvalidateSteps(t)
    \/ \E t \in Tasks : InstallPackage(t)
    \/ \E t \in Tasks : UninstallPackage(t)
    \/ \E t \in Tasks : UpdatePackage(t)
    \/ \E t \in Tasks : SwitchPackageVersion(t)
    \/ \E t \in Tasks : GetPackageVersions(t)
    \/ \E t \in Tasks : VersionsCheck(t)
    \/ \E t \in Tasks : VersionsUpdateLock(t)
    \/ \E t \in Tasks : VersionsStore(t)
    \/ \E t \in Tasks : GetVersionedPackages(t)
    \/ \E t \in Tasks : VersionedCheck(t)
    \/ \E t \in Tasks : VersionedUpdateLock(t)
    \/ \E t \in Tasks : VersionedStore(t)
    \/ \E t \in Tasks : Return(t)

SpecVersions == Init /\ [][NextVersions]_vars

\* the root path: settings changes and the path refresh of a scan
NextPath ==
    \/ \E t \in Tasks : GetInstalledPackagesFull(t)
    \/ \E t \in Tasks : RefreshScoopPathLock(t)
    \/ \E t \in Tasks : ScanSteps(t)
    \/ \E t \in Tasks : InvalidateSteps(t)
    \/ \E t \in Tasks : InstallPackage(t)
    \/ \E t \in Tasks : UninstallPackage(t)
    \/ \E t \in Tasks : GetPackageVersions(t)
    \/ \E t \in Tasks : VersionsCheck(t)
    \/ \E t \in Tasks : VersionsUpdateLock(t)
    \/ \E t \in Tasks : VersionsStore(t)
    \/ \E t \in Tasks : SetScoopPath(t)
    \/ \E t \in Tasks : Return(t)

SpecPath == Init /\ [][NextPath]_vars

\* the commands that run the package manager
NextCommands ==
    \/ \E t \in Tasks : GetInstalledPackagesFull(t)
    \/ \E t \in Tasks : ScanSteps(t)
    \/ \E t \in Tasks : InvalidateSteps(t)
    \/ \E t \in Tasks : InstallPackage(t)
    \/ \E t \in Tasks : UninstallPackage(t)
    \/ \E t \in Tasks : UpdatePackage(t)
    \/ \E t \in Tasks : UpdateAllPackages(t)
    \/ \E t \in Tasks : UpdateAllPackagesHeadless(t)
    \/ \E t \in Tasks : ClearPackageCache(t)
    \/ \E t \in Tasks : Return(t)

SpecCommands == Init /\ [][NextCommands]_vars

\* ======================================================================
\* Properties
\* ======================================================================
IsQuery(t) == cmd[t] = "get_installed_packages_full"

\* C1: two installed-list queries in succession, nothing else running in
\* between: the second returns the list the first returned and loads no
\* package (it is answered by the cache).
C1_CacheHitIdempotence ==
    \A t \in Tasks :
        (pc[t] = "done" /\ IsQuery(t) /\ loc[t].sawQuiet /\ quiet)
            => (~loc[t].scanned /\ lastRet = Some(loc[t].ret.val))

C1_Witness ==
    \E t \in Tasks :
        /\ pc[t] = "done" /\ IsQuery(t) /\ loc[t].sawQuiet /\ quiet
        /\ ~loc[t].scanned
        /\ loc[t].ret.val /= {}
        /\ lastRet = Some(loc[t].ret.val)

\* C2: once invalidate_installed_cache has completed and until some scan
\* writes a new entry, every cache check misses and goes on to a full rescan,
\* also when the computed fingerprint is the one that was dropped.
C2_InvalidationForcesRescan ==
    [][\A t \in Tasks : (CheckCache(t) /\ IsSome(droppedFp)) => pc'[t] = "scan"]_vars

C2_Witness ==
    \E t \in Tasks :
        /\ pc[t] = "scan" /\ IsQuery(t)
        /\ IsSome(droppedFp)
        /\ Unwrap(droppedFp) = loc[t].fp

\* C3: a get_package_versions call answers without scanning the package
\* directory only when the versions cache is present, the installed cache is
\* present, both hold the same fingerprint and the map has the package; the
\* answer is then the cached list. In every other case it scans or fails.
IsVersionsQuery(t) == cmd[t] = "get_package_versions"

C3_VersionsHitOnlyWhenValid ==
    [][\A t \in Tasks :
        (cmd'[t] = "get_package_versions" /\ pc[t] \in {"idle", "versions_check"}
            /\ pc'[t] = "done"
            /\ loc'[t].ret.kind = "ok" /\ ~loc'[t].scanned)
        => /\ IsSome(package_versions)
           /\ IsSome(installed_packages)
           /\ Unwrap(package_versions).fingerprint = Unwrap(installed_packages).fingerprint
           /\ loc[t].pkg \in DOMAIN Unwrap(package_versions).versions_map
           /\ loc'[t].ret.val = Unwrap(package_versions).versions_map[loc[t].pkg]]_vars

\* a lookup rescans although the versions cache holds its package, because the
\* installed cache's fingerprint has moved on since the entry was stored
C3_Witness ==
    \E t \in Tasks :
        /\ IsVersionsQuery(t) /\ pc[t] = "versions_update" /\ loc[t].scanned
        /\ IsSome(package_versions) /\ IsSome(installed_packages)
        /\ loc[t].pkg \in DOMAIN Unwrap(package_versions).versions_map
        /\ Unwrap(package_versions).fingerprint /= Unwrap(installed_packages).fingerprint

\* C4: a step that turns the installed cache from present to absent either
\* clears the versions cache too, or belongs to a task inside
\* invalidate_installed_cache that still holds the installed lock and clears
\* the versions cache with its next step.
C4_ClearsBothCaches ==
    [][(IsSome(installed_packages) /\ ~IsSome(installed_packages'))
        => \/ ~IsSome(package_versions')
           \/ \E t \in Tasks : pc'[t] = "invalidate_versions" /\ installed_lock' = t]_vars

\* C5 as stated: a force refresh inside the debounce window returns without
\* scanning, and one outside the window scans.
IsRefresh(t) == cmd[t] = "refresh_installed_packages"

C5_DebounceAsStated ==
    \A t \in Tasks :
        (IsRefresh(t) /\ pc[t] = "done")
            => (loc[t].debounced <=> ~loc[t].scanned)

\* C5 amended: a force refresh is debounced exactly when a refresh time is
\* recorded and less than DebounceMs have passed since; a debounced refresh
\* returns the installed cache's content without scanning when the cache is
\* present, and otherwise records the time and goes on to invalidate and scan;
\* a refresh that has invalidated ends with a scan of the package directories
\* unless another scan stored an entry after the invalidation.
C5_DebounceAmended ==
    [][\A t \in Tasks :
        /\ RefreshInstalledPackages(t) =>
              IF last_refresh_time /= 0 /\ now - last_refresh_time < DebounceMs
              THEN pc'[t] = "debounce_lock" /\ last_refresh_time' = last_refresh_time
              ELSE pc'[t] = "invalidate" /\ last_refresh_time' = now
        /\ DebounceLock(t) =>
              IF IsSome(installed_packages)
              THEN /\ pc'[t] = "done"
                   /\ loc'[t].ret = Ok(Unwrap(installed_packages).packages)
                   /\ ~loc'[t].scanned
              ELSE pc'[t] = "invalidate" /\ last_refresh_time' = now
        /\ (IsRefresh(t) /\ pc[t] /= "done" /\ pc'[t] = "done" /\ loc'[t].invalidated)
              => \/ loc'[t].scanned
                 \/ IsSome(installed_packages) /\ ~IsSome(droppedFp)]_vars

\* a debounced refresh that found the installed cache absent and rescanned
C5_Witness ==
    \E t \in Tasks :
        /\ IsRefresh(t) /\ pc[t] = "done"
        /\ loc[t].debounced /\ loc[t].invalidated /\ loc[t].scanned
        /\ last_refresh_time = now

\* C6 as stated: the write of a query that was overtaken by an invalidation
\* does not change the installed cache.
C6_InvalidationWins ==
    [][\A t \in Tasks :
        (UpdateCache(t) /\ loc[t].overtaken)
            => installed_packages' = installed_packages]_vars

\* C6 amended: the installed cache is absent from the end of an invalidation
\* until the next cache write, and that write may be the one of a query that
\* was between its cache check and its write when the invalidation completed:
\* it stores the fingerprint/list pair the query computed (last writer wins).
C6_LastWriterWins ==
    /\ [](IsSome(droppedFp) => ~IsSome(installed_packages))
    /\ [][\A t \in Tasks :
            (UpdateCache(t) /\ loc[t].overtaken)
                => installed_packages' =
                       Some([fingerprint |-> loc[t].fp, packages |-> loc[t].list])]_vars

\* an overtaken query has stored its pair, and the pair no longer describes the tree
C6_Witness ==
    \E t \in Tasks :
        /\ IsQuery(t) /\ pc[t] = "done" /\ loc[t].overtaken /\ loc[t].wrote
        /\ staleStored
        /\ IsSome(installed_packages)
        /\ Unwrap(installed_packages).fingerprint
               /= ComputeAppsFingerprint(fs, ListAppDirs(fs, scoop_path))

\* C7: when the stored pair was written by an overtaken query and its list is
\* not what a scan of the tree gives, a query whose fingerprint describes the
\* tree misses the cache (its fingerprint differs from the stored one).
C7_StaleSelfHeals ==
    \A t \in Tasks :
        (/\ IsQuery(t) /\ pc[t] = "check_cache"
         /\ staleStored /\ IsSome(installed_packages)
         /\ loc[t].fp = ComputeAppsFingerprint(fs, ListAppDirs(fs, scoop_path))
         /\ Unwrap(installed_packages).packages
                /= ScanPackages(fs, scoop_path, ListAppDirs(fs, scoop_path)))
            => ~CacheHit(installed_packages, loc[t].fp)

\* C8: a mutating command that has finished with success has invalidated.
Mutating ==
    {"install_package", "uninstall_package", "update_package", "update_all_packages",
     "update_all_packages_headless", "clear_package_cache"}

C8_MutatingCommandsInvalidate ==
    \A t \in Tasks :
        (pc[t] = "done" /\ cmd[t] \in Mutating /\ loc[t].ret.kind = "ok")
            => loc[t].invalidated

\* C9: an install or uninstall that has finished with an error has invalidated.
C9_InvalidateOnFailure ==
    \A t \in Tasks :
        (pc[t] = "done" /\ cmd[t] \in {"install_package", "uninstall_package"}
            /\ loc[t].ret.kind = "err")
            => loc[t].invalidated

\* C10: the store of a get_package_versions miss keeps the entries of the other
\* packages when the versions cache holds the installed cache's fingerprint.
C10_MissKeepsOtherEntries ==
    [][\A t \in Tasks :
        (/\ VersionsStore(t)
         /\ IsSome(package_versions) /\ IsSome(installed_packages)
         /\ Unwrap(package_versions).fingerprint = Unwrap(installed_packages).fingerprint)
        => /\ IsSome(package_versions')
           /\ \A q \in DOMAIN Unwrap(package_versions).versions_map \ {loc[t].pkg} :
                /\ q \in DOMAIN Unwrap(package_versions').versions_map
                /\ Unwrap(package_versions').versions_map[q]
                       = Unwrap(package_versions).versions_map[q]]_vars

\* C11: a store into the versions cache leaves it carrying the fingerprint
\* the installed cache holds at that moment, so that entries stored under
\* different installed-cache fingerprints never share one object.
C11_EntriesUnderOneFingerprint ==
    [][\A t \in Tasks :
        ((VersionsStore(t) \/ VersionedStore(t)) /\ package_versions' /= package_versions)
            => Unwrap(package_versions').fingerprint
                   = Unwrap(installed_packages).fingerprint]_vars

\* what the fresh scan of get_versioned_packages collects from a tree
VersionedByScan(tree, root) ==
    {p \in ListAppDirs(tree, root) : Cardinality(VersionDirs(tree, root, p)) > 1}

\* C12: an answer of get_versioned_packages taken from the versions cache is
\* the set of packages with more than one version directory, the set a fresh
\* scan at that moment returns.
C12_VersionedSameFromCacheAndScan ==
    [][\A t \in Tasks :
        (VersionedCheck(t) /\ pc'[t] = "done" /\ ~loc'[t].scanned)
            => loc'[t].ret = Ok(VersionedByScan(fs, loc[t].root))]_vars

\* a cached answer that leaves out a package with two version directories
C12_Witness ==
    \E t \in Tasks :
        /\ cmd[t] = "get_versioned_packages" /\ pc[t] = "done" /\ ~loc[t].scanned
        /\ OthersIdle(t)
        /\ loc[t].ret.kind = "ok"
        /\ "b" \in VersionedByScan(fs, scoop_path) \ loc[t].ret.val

\* =====================================================================
\* The pure functions of the scan: the package loader, the fallback to the
\* latest version directory, the bucket search and the per-package scan.
\* They are applied to directory listings; `call` holds one application.
\* =====================================================================

\* -------------------------------------------------------------- bounds
\* entries of one listing: a directory, the app directories, the candidate roots
MaxDirs == 2

\* ---------------------------------------------------- names and characters
\* A file name is a sequence of one-character strings.
Str(c) == <<c>>
CurrentName == <<"c", "u", "r", "r", "e", "n", "t">>
UpperToLower == [A |-> "a", B |-> "b", C |-> "c", S |-> "s"]

\* char::to_ascii_lowercase
CharToAsciiLowercase(c) == IF c \in DOMAIN UpperToLower THEN UpperToLower[c] ELSE c

\* str::to_ascii_lowercase
ToAsciiLowercase(name) == [i \in 1..Len(name) |-> CharToAsciiLowercase(name[i])]

\* str::eq_ignore_ascii_case
EqIgnoreAsciiCase(x, y) == ToAsciiLowercase(x) = ToAsciiLowercase(y)

\* ------------------------------------------------------- directory listings
\* A metadata file is [present, mtime, parses, version, bucket]: whether it
\* exists, its modification time, whether its JSON parses, and the fields the
\* loader reads from it (manifest.json: version; install.json: bucket).
\* An entry of a package directory is [name, is_dir, install, manifest, mtime]
\* with the two metadata files of a version directory and its own mtime.
Absent == [present |-> FALSE, mtime |-> 0, parses |-> FALSE, version |-> <<>>, bucket |-> None]
Exists(f) == f.present
Broken(t) == [Absent EXCEPT !.present = TRUE, !.mtime = t]
ManifestOf(n, t) == [Broken(t) EXCEPT !.parses = TRUE, !.version = n]
InstallOf(b, t) == [Broken(t) EXCEPT !.parses = TRUE, !.bucket = b]

\* fs::read_to_string followed by serde_json::from_str
ReadJson(f, what) ==
    IF ~Exists(f) THEN [kind |-> "err", val |-> "read_" \o what]
    ELSE IF ~f.parses THEN [kind |-> "err", val |-> "parse_" \o what]
    ELSE [kind |-> "ok", val |-> f]

\* fs::metadata(install.json).or_else(manifest.json).or_else(dir) -> modified
get_install_modification_time(e) ==
    IF Exists(e.install) THEN e.install.mtime
    ELSE IF Exists(e.manifest) THEN e.manifest.mtime
    ELSE e.mtime

\* the filter of find_latest_version_dir's loop
IsVersionCandidate(e) ==
    /\ e.is_dir
    /\ ~EqIgnoreAsciiCase(e.name, CurrentName)
    /\ (Exists(e.install) \/ Exists(e.manifest))

\* Vec::sort_by(|a, b| b.0.cmp(&a.0)): stable, descending by stamp
\* the sort in ascending order
RECURSIVE InsertAsc(_, _)
InsertAsc(e, sorted) ==
    IF sorted = <<>> THEN <<e>>
    ELSE IF get_install_modification_time(Head(sorted)) <= get_install_modification_time(e)
         THEN <<Head(sorted)>> \o InsertAsc(e, Tail(sorted))
         ELSE <<e>> \o sorted

RECURSIVE InsertDesc(_, _)
InsertDesc(e, sorted) ==
    IF sorted = <<>> THEN <<e>>
    ELSE IF get_install_modification_time(Head(sorted)) >= get_install_modification_time(e)
         THEN <<Head(sorted)>> \o InsertDesc(e, Tail(sorted))
         ELSE <<e>> \o sorted

RECURSIVE SortByStampDesc(_)
SortByStampDesc(seq) ==
    IF seq = <<>> THEN <<>>
    ELSE InsertDesc(Head(seq), SortByStampDesc(Tail(seq)))

find_latest_version_dir(entries) ==
    LET candidates == SortByStampDesc(SelectSeq(entries, IsVersionCandidate))
    IN  IF candidates = <<>> THEN None ELSE Some(Head(candidates))

\* package_path.join("current").is_dir()
IsCurrentDir(e) == e.name = CurrentName /\ e.is_dir

locate_install_dir(entries) ==
    LET current == SelectSeq(entries, IsCurrentDir)
    IN  IF current /= <<>> THEN Some(Head(current)) ELSE find_latest_version_dir(entries)

\* A bucket directory entry is [name, is_dir, manifests]: the package names
\* that have a manifest buckets/{bucket}/bucket/{package}.json.
find_package_bucket(buckets, package_name) ==
    LET found == SelectSeq(buckets, LAMBDA b : b.is_dir /\ package_name \in b.manifests)
    IN  IF found = <<>> THEN None ELSE Some(Head(found).name)

MainBucket == <<"m", "a", "i", "n">>
LoadErr(e) == [kind |-> "err", val |-> e]
LoadOk(p) == [kind |-> "ok", val |-> p]

\* a name taken from the install directory, `current` for every package
CurrentDirName(dir) == CurrentName

\* package_path.file_name(): the record is named after its directory
PackageName(dir) == dir.name

\* a package directory is [name, entries]
load_package_details(dir, buckets) ==
    LET current == SelectSeq(dir.entries, IsCurrentDir)
        install_root == IF current /= <<>> THEN Some(Head(current))
                        ELSE find_latest_version_dir(dir.entries)
    IN
    IF ~IsSome(install_root) THEN LoadErr("no_active_version")
    ELSE
      LET root == Unwrap(install_root)
          manifest == ReadJson(root.manifest, "manifest")
          install_manifest == ReadJson(root.install, "install")
      IN  IF manifest.kind = "err" THEN manifest
          ELSE IF install_manifest.kind = "err" THEN install_manifest
          ELSE
            LET searched == IF IsSome(install_manifest.val.bucket)
                            THEN install_manifest.val.bucket
                            ELSE find_package_bucket(buckets, PackageName(dir))
            IN  LoadOk([name |-> PackageName(dir),
                        version |-> manifest.val.version,
                        source |-> IF IsSome(searched) THEN Unwrap(searched) ELSE MainBucket,
                        updated |-> root.mtime,
                        is_versioned_install |-> ~IsSome(install_manifest.val.bucket)])

\* a scan that a failing package aborts
scan_aborting_on_failure(app_dirs, buckets) ==
    IF \E i \in 1..Len(app_dirs) : load_package_details(app_dirs[i], buckets).kind = "err"
    THEN <<>>
    ELSE [i \in 1..Len(app_dirs) |-> load_package_details(app_dirs[i], buckets).val]

\* app_dirs.par_iter().filter_map(load_package_details ... Ok => Some, Err => None)
RECURSIVE scan_installed_packages(_, _)
scan_installed_packages(app_dirs, buckets) ==
    IF app_dirs = <<>> THEN <<>>
    ELSE LET loaded == load_package_details(Head(app_dirs), buckets)
             rest == scan_installed_packages(Tail(app_dirs), buckets)
         IN  IF loaded.kind = "ok" THEN <<loaded.val>> \o rest ELSE rest

\* ------------------------------------------------------ inputs of the calls
Times == {1, 2}
VersionNames == {Str("1"), Str("2")}
PackageNames == {Str("a"), Str("b"), Str("c")}
BucketNames == {Str("x"), Str("y"), Str("z")}

\* the listings of at most MaxDirs entries of S, no name twice
Listings(S) ==
    {l \in UNION {[1..n -> S] : n \in 0..MaxDirs} :
        \A i, j \in 1..Len(l) : i < j => l[i].name /= l[j].name}

PlainFile(n) == [name |-> n, is_dir |-> FALSE, install |-> Absent,
                 manifest |-> Absent, mtime |-> 1]
Dir(n, i, m, t) == [name |-> n, is_dir |-> TRUE, install |-> i, manifest |-> m, mtime |-> t]

\* a `current` that is a file or the newest directory, and version
\* directories whose metadata files, where present, parse
FallbackEntries ==
    {PlainFile(n) : n \in VersionNames \cup {CurrentName}}
        \cup {Dir(CurrentName, InstallOf(None, 2), ManifestOf(CurrentName, 2), 2)}
        \cup UNION {{Dir(n, i, m, t) :
                        i \in {Absent} \cup {InstallOf(None, ti) : ti \in Times},
                        m \in {Absent} \cup {ManifestOf(n, tm) : tm \in Times},
                        t \in Times} : n \in VersionNames}

\* package directories in each way a load can end
PackageShapes ==
    {<<>>, <<PlainFile(CurrentName)>>,
     <<Dir(Str("1"), InstallOf(None, 1), ManifestOf(Str("1"), 1), 1)>>}
        \cup {<<Dir(CurrentName, i, m, 1)>> :
                i \in {Absent, Broken(1), InstallOf(None, 1)},
                m \in {Absent, Broken(1), ManifestOf(Str("1"), 1)}}

PackageDirs == {[name |-> n, entries |-> l] : n \in PackageNames, l \in PackageShapes}

\* bucket directories holding or not holding a manifest of package a
BucketEntries ==
    {[name |-> n, is_dir |-> d, manifests |-> ms] :
        n \in BucketNames, d \in BOOLEAN, ms \in {{}, {Str("a")}}}

Pending(c) == c.res = <<>>
Returned(c) == c.res /= <<>>
Result(c) == c.res[1]

FindLatestCalls ==
    {[fn |-> "find_latest_version_dir", entries |-> l, res |-> <<>>] :
        l \in Listings(FallbackEntries)}

LoadCalls ==
    {[fn |-> "load_package_details", dir |-> [name |-> Str("a"), entries |-> l],
      buckets |-> <<>>, res |-> <<>>] : l \in Listings(FallbackEntries)}
        \cup
    {[fn |-> "load_package_details",
      dir |-> [name |-> Str("a"),
               entries |-> <<Dir(CurrentName, InstallOf(b, 1), ManifestOf(Str("1"), 1), 1)>>],
      buckets |-> bs, res |-> <<>>] :
        b \in {None, Some(Str("x")), Some(Str("y"))}, bs \in Listings(BucketEntries)}

ScanCalls ==
    {[fn |-> "scan_installed_packages", app_dirs |-> l, buckets |-> <<>>, res |-> <<>>] :
        l \in Listings(PackageDirs)}

programVars == <<fs, now, scoop_path, stored_path, installed_packages, package_versions,
                 installed_lock, versions_lock, last_refresh_time, pc, cmd, loc,
                 quiet, disturbed, lastRet, droppedFp, staleStored, scoop_root_cache,
                 shellVars>>

\* ------------------------------------------------------------------- calls
FindLatestVersionDirCall ==
    /\ call.fn = "find_latest_version_dir" /\ Pending(call)
    /\ call' = [call EXCEPT !.res = <<find_latest_version_dir(call.entries)>>]
    /\ UNCHANGED programVars

LoadPackageDetailsCall ==
    /\ call.fn = "load_package_details" /\ Pending(call)
    /\ call' = [call EXCEPT !.res = <<load_package_details(call.dir, call.buckets)>>]
    /\ UNCHANGED programVars

ScanInstalledPackagesCall ==
    /\ call.fn = "scan_installed_packages" /\ Pending(call)
    /\ call' = [call EXCEPT !.res = <<scan_installed_packages(call.app_dirs, call.buckets)>>]
    /\ UNCHANGED programVars

InitLoader == ProgramInit /\ call \in FindLatestCalls \cup LoadCalls \cup ScanCalls

NextLoader ==
    \/ FindLatestVersionDirCall
    \/ LoadPackageDetailsCall
    \/ ScanInstalledPackagesCall

SpecLoader == InitLoader /\ [][NextLoader]_vars

\* the directories of a listing whose load succeeds
Loads(d, buckets) == load_package_details(d, buckets).kind = "ok"

\* C13: a scan returns exactly the records of the packages whose load
\* succeeds, in listing order: a failing package drops only itself.
C13_ScanDropsOnlyFailures ==
    (call.fn = "scan_installed_packages" /\ Returned(call))
        => LET ok == SelectSeq(call.app_dirs, LAMBDA d : Loads(d, call.buckets))
           IN  /\ Len(Result(call)) = Len(ok)
               /\ \A i \in 1..Len(ok) :
                      Result(call)[i] = load_package_details(ok[i], call.buckets).val

\* a scan of a failing package next to a sibling that loads
C13_Witness ==
    /\ call.fn = "scan_installed_packages" /\ Returned(call)
    /\ Len(call.app_dirs) = 2 /\ Len(Result(call)) = 1
    /\ ~Loads(call.app_dirs[1], call.buckets)
    /\ load_package_details(call.app_dirs[1], call.buckets).val = "read_install"
    /\ Result(call)[1].name = call.app_dirs[2].name

\* a version subdirectory: not named current, with a per-version metadata file
IsVersionSubdir(e) ==
    e.is_dir /\ e.name /= CurrentName /\ (e.install.present \/ e.manifest.present)

NoUsableCurrent(entries) == \A i \in 1..Len(entries) : ~IsCurrentDir(entries[i])

\* e is a version subdirectory of the listing, and none has a later time
LatestBy(entries, time(_), e) ==
    /\ \E i \in 1..Len(entries) : entries[i] = e
    /\ IsVersionSubdir(e)
    /\ \A i \in 1..Len(entries) : IsVersionSubdir(entries[i]) => time(entries[i]) <= time(e)

\* what the fallback and the loader owe, for a given notion of a version
\* directory's modification time
FallbackTakesLatestBy(time(_)) ==
    /\ (call.fn = "find_latest_version_dir" /\ Returned(call))
           => IF \E i \in 1..Len(call.entries) : IsVersionSubdir(call.entries[i])
              THEN IsSome(Result(call)) /\ LatestBy(call.entries, time, Unwrap(Result(call)))
              ELSE Result(call) = None
    /\ (call.fn = "load_package_details" /\ Returned(call)
            /\ NoUsableCurrent(call.dir.entries))
           => /\ (Result(call).kind = "err" /\ Result(call).val = "no_active_version")
                      <=> ~\E i \in 1..Len(call.dir.entries) :
                                IsVersionSubdir(call.dir.entries[i])
              /\ Result(call).kind = "ok"
                      => \E i \in 1..Len(call.dir.entries) :
                            /\ LatestBy(call.dir.entries, time, call.dir.entries[i])
                            /\ Result(call).val.version = call.dir.entries[i].manifest.version
                            /\ Result(call).val.updated = call.dir.entries[i].mtime

\* C14 as stated: without a usable current directory the loader takes the
\* version subdirectory whose directory modification time is the most recent,
\* and fails with no-active-version only if there is none.
C14_LatestByDirectoryTime == FallbackTakesLatestBy(LAMBDA e : e.mtime)

\* C14 amended: the version subdirectory taken is the one with the most recent
\* modification stamp, which is the modification time of its install.json,
\* else of its manifest.json, else of the directory.
C14_LatestByStamp == FallbackTakesLatestBy(get_install_modification_time)

\* the loader took the version directory with the later stamp although the
\* other directory was modified later
C14_Witness ==
    /\ call.fn = "load_package_details" /\ Returned(call) /\ Result(call).kind = "ok"
    /\ Len(call.dir.entries) = 2 /\ NoUsableCurrent(call.dir.entries)
    /\ \E i, j \in 1..2 :
         /\ IsVersionSubdir(call.dir.entries[i]) /\ IsVersionSubdir(call.dir.entries[j])
         /\ Result(call).val.version = call.dir.entries[i].name
         /\ get_install_modification_time(call.dir.entries[i])
                > get_install_modification_time(call.dir.entries[j])
         /\ call.dir.entries[i].mtime < call.dir.entries[j].mtime

\* the names of the bucket directories that hold a manifest of the package
BucketsHolding(buckets, package_name) ==
    {buckets[i].name : i \in {j \in 1..Len(buckets) :
                                buckets[j].is_dir /\ package_name \in buckets[j].manifests}}

\* the bucket field of the install record the loader read
RecordedBucket(dir) == Unwrap(locate_install_dir(dir.entries)).install.bucket

\* C15: a bucket field in the install record is the source and the package is
\* not a versioned install; without the field, a bucket directory holding the
\* package's manifest is the source and the package is not flagged, and only
\* when no bucket holds it is the package flagged and the source the default.
C15_BucketFallback ==
    (call.fn = "load_package_details" /\ Returned(call) /\ Result(call).kind = "ok")
        => LET r == Result(call).val
               holding == BucketsHolding(call.buckets, call.dir.name)
           IN  IF IsSome(RecordedBucket(call.dir))
               THEN r.source = Unwrap(RecordedBucket(call.dir)) /\ ~r.is_versioned_install
               ELSE IF holding /= {}
               THEN r.source \in holding /\ ~r.is_versioned_install
               ELSE r.source = MainBucket /\ r.is_versioned_install

\* a package without a bucket field, found in a bucket, and flagged all the same
C15_Witness ==
    /\ call.fn = "load_package_details" /\ Returned(call) /\ Result(call).kind = "ok"
    /\ ~IsSome(RecordedBucket(call.dir))
    /\ Result(call).val.source \in BucketsHolding(call.buckets, call.dir.name)
    /\ Result(call).val.is_versioned_install

\* =====================================================================
\* The fingerprint function on strings.
\* =====================================================================

\* the characters of a fingerprint in increasing byte order
ByteOrder == <<"0", "1", "2", "3", "4", "5", "6", "7", "8", "9", ":", ";",
               "A", "B", "C", "a", "b", "c", "|">>
CharCode(c) == CHOOSE i \in 1..Len(ByteOrder) : ByteOrder[i] = c
Digit(n) == ByteOrder[n + 1]

\* the Display form of an unsigned integer
RECURSIVE Decimal(_)
Decimal(n) == IF n < 10 THEN <<Digit(n)>> ELSE Decimal(n \div 10) \o <<Digit(n % 10)>>

\* String's Ord: bytewise lexicographic
RECURSIVE StrLess(_, _)
StrLess(x, y) ==
    IF y = <<>> THEN FALSE
    ELSE IF x = <<>> THEN TRUE
    ELSE IF Head(x) = Head(y) THEN StrLess(Tail(x), Tail(y))
    ELSE CharCode(Head(x)) < CharCode(Head(y))

RECURSIVE InsertString(_, _)
InsertString(e, sorted) ==
    IF sorted = <<>> THEN <<e>>
    ELSE IF StrLess(e, Head(sorted)) THEN <<e>> \o sorted
    ELSE <<Head(sorted)>> \o InsertString(e, Tail(sorted))

\* the entries left in directory order
Unsorted(strings) == strings

\* Vec<String>::sort
RECURSIVE SortStrings(_)
SortStrings(strings) ==
    IF strings = <<>> THEN <<>>
    ELSE InsertString(strings[Len(strings)], SortStrings(SubSeq(strings, 1, Len(strings) - 1)))

\* [String]::join
RECURSIVE Join(_, _)
Join(strings, sep) ==
    IF strings = <<>> THEN <<>>
    ELSE IF Len(strings) = 1 THEN strings[1]
    ELSE strings[1] \o sep \o Join(Tail(strings), sep)

\* an app directory is [name, entries, mtime]
get_path_modification_time(d) == d.mtime

ModifiedStamp(d) ==
    LET install_dir == locate_install_dir(d.entries)
    IN  IF IsSome(install_dir) THEN get_install_modification_time(Unwrap(install_dir))
        ELSE get_path_modification_time(d)

\* an entry that leaves the stamp out
FingerprintEntryNameOnly(d) == ToAsciiLowercase(d.name)

FingerprintEntry(d) == ToAsciiLowercase(d.name) \o Str(":") \o Decimal(ModifiedStamp(d))

compute_apps_fingerprint(app_dirs) ==
    LET entries == [i \in 1..Len(app_dirs) |-> FingerprintEntry(app_dirs[i])]
    IN  Decimal(Len(app_dirs)) \o Str("|") \o Join(SortStrings(entries), Str(";"))

\* ------------------------------------------------------ inputs of the calls
AppNames == {Str("a"), Str("A"), Str("b")}

\* app directories: without an active version, and with a current directory
\* whose install.json and whose own modification time vary
AppDirs ==
    {[name |-> n, entries |-> <<>>, mtime |-> 2] : n \in AppNames}
        \cup {[name |-> n, mtime |-> 1,
               entries |-> <<Dir(CurrentName, InstallOf(None, ti),
                                 ManifestOf(Str("1"), 1), td)>>] :
                n \in AppNames, ti \in Times, td \in Times}
        \cup {[name |-> n, mtime |-> 1,
               entries |-> <<Dir(CurrentName, Absent, Absent, td)>>] :
                n \in AppNames, td \in Times}

\* the app directories two scans are compared on
ComparedDirs ==
    {d \in AppDirs :
        \/ d.name = Str("a") /\ d.entries = <<>>
        \/ /\ d.entries /= <<>> /\ Exists(d.entries[1].install)
           /\ (d.name = Str("a") \/ d.entries[1].mtime = 1)
           /\ (d.entries[1].install.mtime = 1 \/ d.entries[1].mtime = 1)}

FingerprintCalls ==
    {[fn |-> "compute_apps_fingerprint", app_dirs |-> l, res |-> <<>>] : l \in Listings(AppDirs)}

TwoScansCalls ==
    {[fn |-> "two_scans", first |-> l1, second |-> l2, res |-> <<>>] :
        l1 \in Listings(ComparedDirs), l2 \in Listings(ComparedDirs)}

ComputeAppsFingerprintCall ==
    /\ call.fn = "compute_apps_fingerprint" /\ Pending(call)
    /\ call' = [call EXCEPT !.res = <<compute_apps_fingerprint(call.app_dirs)>>]
    /\ UNCHANGED programVars

\* two scans, each computing the fingerprint of the app directories it sees
TwoScansCall ==
    /\ call.fn = "two_scans" /\ Pending(call)
    /\ call' = [call EXCEPT !.res = <<<<compute_apps_fingerprint(call.first),
                                        compute_apps_fingerprint(call.second)>>>>]
    /\ UNCHANGED programVars

InitFingerprint == ProgramInit /\ call \in FingerprintCalls \cup TwoScansCalls

NextFingerprint ==
    \/ ComputeAppsFingerprintCall
    \/ TwoScansCall

SpecFingerprint == InitFingerprint /\ [][NextFingerprint]_vars

\* the listing l in the order perm
Permuted(l, perm) == [i \in 1..Len(l) |-> l[perm[i]]]

\* C16: the fingerprint of a listing is the fingerprint of each of its
\* permutations.
C16_OrderIndependent ==
    (call.fn = "compute_apps_fingerprint" /\ Returned(call))
        => \A perm \in Permutations(1..Len(call.app_dirs)) :
               compute_apps_fingerprint(Permuted(call.app_dirs, perm)) = Result(call)

\* a listing whose directory order is not the sorted order of its entries
C16_Witness ==
    /\ call.fn = "compute_apps_fingerprint" /\ Returned(call)
    /\ Len(call.app_dirs) = 2
    /\ StrLess(FingerprintEntry(call.app_dirs[2]), FingerprintEntry(call.app_dirs[1]))

\* the modification time of the active-version directory of an app directory
ActiveDirTime(d) ==
    LET install_dir == locate_install_dir(d.entries)
    IN  IF IsSome(install_dir) THEN Unwrap(install_dir).mtime ELSE 0

\* how often each key occurs among the app directories of a listing
Census(l, key(_)) ==
    [k \in {key(l[i]) : i \in 1..Len(l)} |-> Cardinality({i \in 1..Len(l) : key(l[i]) = k})]

\* C17 as stated: two scans yield the same fingerprint if and only if they
\* see the same package directories with the same modification times of their
\* active-version directories.
C17_SameIffSameDirsAndTimes ==
    (call.fn = "two_scans" /\ Returned(call))
        => (Result(call)[1] = Result(call)[2]
                <=> Census(call.first, LAMBDA d : <<d.name, ActiveDirTime(d)>>)
                        = Census(call.second, LAMBDA d : <<d.name, ActiveDirTime(d)>>))

\* C17 amended: two scans yield the same fingerprint if and only if they see
\* the same package names up to ASCII case, each as often, with the same
\* modification stamps (install.json, else manifest.json, else the active
\* directory, else the package directory).
C17_SameIffSameLowercasedNamesAndStamps ==
    (call.fn = "two_scans" /\ Returned(call))
        => (Result(call)[1] = Result(call)[2]
                <=> Census(call.first, LAMBDA d : <<ToAsciiLowercase(d.name), ModifiedStamp(d)>>)
                        = Census(call.second,
                                 LAMBDA d : <<ToAsciiLowercase(d.name), ModifiedStamp(d)>>))

\* two scans with one fingerprint over directories whose names differ in case
\* and whose active-version directories differ in modification time
C17_Witness ==
    /\ call.fn = "two_scans" /\ Returned(call)
    /\ Result(call)[1] = Result(call)[2]
    /\ Len(call.first) = 1 /\ Len(call.second) = 1
    /\ call.first[1].name /= call.second[1].name
    /\ call.first[1].entries /= <<>> /\ call.second[1].entries /= <<>>
    /\ ActiveDirTime(call.first[1]) /= ActiveDirTime(call.second[1])

\* C18: a query between its cache check and its cache write does not hold the
\* installed lock, and a get_package_versions lookup that is about to take
\* it for the fingerprint cross-check can take it and go on.
C18_ScanWithoutInstalledLock ==
    \A t \in Tasks :
        BetweenCheckAndWrite(t)
            => /\ installed_lock /= t
               /\ \A u \in Tasks \ {t} : pc[u] = "versions_check" => ENABLED VersionsCheck(u)

\* a lookup at its cross-check, on a valid versions cache, while the other
\* task is in the middle of its scan
C18_Witness ==
    \E t, u \in Tasks :
        /\ t /= u /\ pc[t] = "update_cache" /\ loc[t].scanned
        /\ pc[u] = "versions_check"
        /\ VersionsHit(package_versions, installed_packages, loc[u].pkg)

\* C19: a query that finds no apps directory under the root resolves the path
\* once; if the apps directory is still missing, or the resolution failed, it
\* returns the empty list. No query resolves twice or ends in an error for
\* want of an apps directory.
C19_MissingAppsYieldsEmptyList ==
    [][\A t \in Tasks :
        /\ (GetInstalledPackagesFull(t) /\ ~HasAppsDir(scoop_path))
               => /\ loc'[t].resolutions = 1
                  /\ ~HasAppsDir(scoop_path') => (pc'[t] = "done" /\ loc'[t].ret = Ok({}))
        /\ (GetInstalledPackagesFull(t) /\ HasAppsDir(scoop_path))
               => loc'[t].resolutions = 0
        /\ (RefreshScoopPathLock(t) /\ ~HasAppsDir(loc[t].root))
               => (pc'[t] = "done" /\ loc'[t].ret = Ok({}))
        /\ (IsQuery(t) /\ cmd'[t] = cmd[t])
               => loc'[t].resolutions = loc[t].resolutions]_vars

\* a query that resolved once, found the root still without apps, and
\* returned the empty list
C19_Witness ==
    \E t \in Tasks :
        /\ IsQuery(t) /\ pc[t] = "done" /\ loc[t].resolutions = 1
        /\ loc[t].ret = Ok({})
        /\ scoop_path = RootBuckets /\ OthersIdle(t)

\* =====================================================================
\* The path resolver: scoring of the candidate roots.
\* =====================================================================

\* ---------------------------------------------------- program constants
BucketsScore == 10
AppsScore == 30
InstalledScoreCap == 50
PreferredBonus == 5
InstalledCountLimit == 200

Min(x, y) == IF x <= y THEN x ELSE y

\* A candidate is [name, is_dir, has_apps, has_buckets, dirs]: its path,
\* whether it is a directory, whether apps/ and buckets/ are directories, and
\* the number of subdirectories of apps/.
evaluate_scoop_candidate(c) ==
    IF ~c.is_dir THEN None
    ELSE IF ~c.has_apps /\ ~c.has_buckets THEN None
    ELSE LET installed_count == IF c.has_apps THEN Min(c.dirs, InstalledCountLimit) ELSE 0
         IN  Some([path |-> c.name,
                   score |-> (IF c.has_buckets THEN BucketsScore ELSE 0)
                                 + (IF c.has_apps THEN AppsScore ELSE 0)
                                 + Min(installed_count, InstalledScoreCap),
                   installed_count |-> installed_count,
                   has_apps_dir |-> c.has_apps,
                   has_buckets_dir |-> c.has_buckets])

\* a rule under which a later candidate wins a full tie
ShouldReplaceOnTie(info, current) ==
    \/ info.score > current.score
    \/ info.score = current.score /\ info.installed_count >= current.installed_count

ShouldReplace(info, current) ==
    \/ info.score > current.score
    \/ info.score = current.score /\ info.installed_count > current.installed_count

\* the loop of select_best_scoop_root, from the best so far
RECURSIVE SelectFrom(_, _, _)
SelectFrom(candidates, preferred, best) ==
    IF candidates = <<>> THEN best
    ELSE LET evaluated == evaluate_scoop_candidate(Head(candidates)) IN
         IF ~IsSome(evaluated) THEN SelectFrom(Tail(candidates), preferred, best)
         ELSE LET e == Unwrap(evaluated)
                  info == IF preferred = Some(e.path)
                          THEN [e EXCEPT !.score = e.score + PreferredBonus]
                          ELSE e
                  replace == IF IsSome(best) THEN ShouldReplace(info, Unwrap(best)) ELSE TRUE
              IN  SelectFrom(Tail(candidates), preferred, IF replace THEN Some(info) ELSE best)

select_best_scoop_root(candidates, preferred) == SelectFrom(candidates, preferred, None)

\* ------------------------------------------------------ inputs of the calls
CandidatePaths == {Str("a"), Str("b"), Str("c")}
InstalledCounts == {0, 45, 50, 60, 250, 300}

Candidates ==
    {[name |-> p, is_dir |-> d, has_apps |-> FALSE, has_buckets |-> b, dirs |-> 0] :
        p \in CandidatePaths, d \in BOOLEAN, b \in BOOLEAN}
        \cup {[name |-> p, is_dir |-> TRUE, has_apps |-> TRUE, has_buckets |-> b, dirs |-> n] :
                p \in CandidatePaths, b \in BOOLEAN, n \in InstalledCounts}

SelectCalls ==
    {[fn |-> "select_best_scoop_root", candidates |-> l, preferred |-> p, res |-> <<>>] :
        l \in Listings(Candidates), p \in {None} \cup {Some(q) : q \in CandidatePaths}}

SelectBestScoopRootCall ==
    /\ call.fn = "select_best_scoop_root" /\ Pending(call)
    /\ call' = [call EXCEPT
                  !.res = <<select_best_scoop_root(call.candidates, call.preferred)>>]
    /\ UNCHANGED programVars

InitResolver == ProgramInit /\ call \in SelectCalls

NextResolver == SelectBestScoopRootCall

SpecResolver == InitResolver /\ [][NextResolver]_vars

\* a directory with an apps or a buckets subdirectory
IsEligibleRoot(c) == c.is_dir /\ (c.has_apps \/ c.has_buckets)

\* the score of the specification
RootScore(c, preferred) ==
    (IF c.has_apps THEN AppsScore ELSE 0) + (IF c.has_buckets THEN BucketsScore ELSE 0)
        + Min(c.dirs, InstalledScoreCap)
        + (IF preferred = Some(c.name) THEN PreferredBonus ELSE 0)

\* candidate i is ahead of candidate j: by score, then by count, then by position
Ahead(l, preferred, count(_), i, j) ==
    \/ RootScore(l[i], preferred) > RootScore(l[j], preferred)
    \/ /\ RootScore(l[i], preferred) = RootScore(l[j], preferred)
       /\ \/ count(l[i]) > count(l[j])
          \/ count(l[i]) = count(l[j]) /\ i <= j

\* the resolver returns the eligible candidate that is ahead of all others
ReturnsBestBy(count(_)) ==
    (call.fn = "select_best_scoop_root" /\ Returned(call))
        => LET l == call.candidates
               eligible == {i \in 1..Len(l) : IsEligibleRoot(l[i])}
           IN  IF eligible = {} THEN Result(call) = None
               ELSE /\ IsSome(Result(call))
                    /\ \E i \in eligible :
                         /\ Unwrap(Result(call)).path = l[i].name
                         /\ \A j \in eligible : Ahead(l, call.preferred, count, i, j)

\* C20 as stated: the highest score wins, equal scores are broken by the
\* higher number of installed-package subdirectories, then by position.
C20_BestByScoreCountPosition == ReturnsBestBy(LAMBDA c : c.dirs)

\* C20 amended: equal scores are broken by the higher number of
\* installed-package subdirectories counted up to 200, then by position.
C20_BestByScoreLimitedCountPosition ==
    ReturnsBestBy(LAMBDA c : Min(c.dirs, InstalledCountLimit))

\* the first of two roots with apps wins although the second holds more
\* package directories, both beyond the limit of the count
C20_Witness ==
    /\ call.fn = "select_best_scoop_root" /\ Returned(call)
    /\ Len(call.candidates) = 2
    /\ call.candidates[1].has_apps /\ call.candidates[2].has_apps
    /\ call.candidates[1].has_buckets = call.candidates[2].has_buckets
    /\ call.preferred = None
    /\ InstalledCountLimit < call.candidates[1].dirs
    /\ call.candidates[1].dirs < call.candidates[2].dirs
    /\ Unwrap(Result(call)).path = call.candidates[1].name

\* ------------------------------------------------ the root and its memo cell
\* resolve_scoop_root under every stored path, in-memory root and outcome of
\* the candidate collection
ResolveCalls ==
    {[fn |-> "resolve_scoop_root", stored |-> s, current |-> c, common |-> l,
      res |-> <<>>] : s \in Roots, c \in Roots, l \in CommonCandidates}

ResolveScoopRootCall ==
    /\ call.fn = "resolve_scoop_root" /\ Pending(call)
    /\ call' = [call EXCEPT
                  !.res = <<resolve_scoop_root(call.stored, call.current, call.common)>>]
    /\ UNCHANGED programVars

InitRoot == ProgramInit /\ call \in ResolveCalls

\* the resolver, the fallback with its memo cell, and the settings command
NextRoot ==
    \/ ResolveScoopRootCall
    \/ \E t \in Tasks : GetScoopAppShortcuts(t)
    \/ \E t \in Tasks : SetScoopPath(t)
    \/ \E t \in Tasks : Return(t)

SpecRoot == InitRoot /\ [][NextRoot]_vars

\* a root with at least one of the two expected subdirectories
HasExpectedSubdir(root) == EvaluateCandidateValid(root)

\* C21: root resolution fails exactly when no candidate has an apps or a
\* buckets directory, and no root without both is ever returned by the
\* resolver or the fallback, memoized, or written to the store or AppState.
C21_NoRootWithoutSubdirs ==
    /\ (call.fn = "resolve_scoop_root" /\ Returned(call))
         => LET r == Result(call)
                candidates == <<call.stored>> \o call.common
            IN  /\ r.ret = None
                     <=> \A i \in 1..Len(candidates) : ~HasExpectedSubdir(candidates[i])
                /\ IsSome(r.ret) => HasExpectedSubdir(Unwrap(r.ret))
                /\ r.stored_path /= call.stored => HasExpectedSubdir(r.stored_path)
                /\ r.scoop_path /= call.current => HasExpectedSubdir(r.scoop_path)
    /\ IsSome(scoop_root_cache) => HasExpectedSubdir(Unwrap(scoop_root_cache))
    /\ \A t \in Tasks :
         (cmd[t] = "get_scoop_app_shortcuts" /\ pc[t] = "done")
             => HasExpectedSubdir(loc[t].root)

\* the fallback found no candidate and answered with the default path
C21_Witness ==
    \E t \in Tasks :
        /\ cmd[t] = "get_scoop_app_shortcuts" /\ pc[t] = "done"
        /\ loc[t].root = DefaultRoot
        /\ scoop_root_cache = Some(DefaultRoot)

\* C22: a call of the resolver leaves the persisted root path and the root
\* of the application state as they were, also when the winning candidate
\* differs from the persisted one.
C22_ResolverOnlyReads ==
    (call.fn = "resolve_scoop_root" /\ Returned(call))
        => /\ Result(call).stored_path = call.stored
           /\ Result(call).scoop_path = call.current

\* the resolver returned a root other than the persisted one
C22_Witness ==
    /\ call.fn = "resolve_scoop_root" /\ Returned(call)
    /\ IsSome(Result(call).ret)
    /\ Unwrap(Result(call).ret) /= call.stored

\* C23: whenever set_scoop_path changes the persisted root path, the
\* memoized root is cleared, so that the next get_scoop_root_fallback
\* resolves again.
C23_SettingClearsMemo ==
    [][stored_path' /= stored_path => scoop_root_cache' = None]_vars

\* the path was set to another root while the cell held a root, and a
\* fallback answered from the cell
C23_Witness ==
    \E t, u \in Tasks :
        /\ cmd[t] = "set_scoop_path" /\ pc[t] = "done"
        /\ cmd[u] = "get_scoop_app_shortcuts" /\ pc[u] = "done"
        /\ scoop_root_cache = Some(loc[u].root)
        /\ stored_path /= loc[u].root

\* the names of the records of a list, in order
RecordNames(list) == [i \in 1..Len(list) |-> list[i].name]

\* no name twice
Distinct(names) == \A i, j \in 1..Len(names) : i < j => names[i] /= names[j]

\* C24: a list returned by a scan, and a list held by the installed-packages
\* cache, has no two records of the same name, and every record of a scan
\* carries the name of a directory of its own under the apps root.
C24_RecordNamesDistinct ==
    /\ (call.fn = "scan_installed_packages" /\ Returned(call))
         => /\ Distinct(RecordNames(Result(call)))
            /\ \E pick \in [1..Len(Result(call)) -> 1..Len(call.app_dirs)] :
                 /\ \A i, j \in DOMAIN pick : i /= j => pick[i] /= pick[j]
                 /\ \A i \in DOMAIN pick :
                        Result(call)[i].name = call.app_dirs[pick[i]].name
    /\ IsSome(installed_packages)
         => \A r1, r2 \in Unwrap(installed_packages).packages :
                r1.name = r2.name => r1 = r2

\* a scan of two package directories returned two records
C24_Witness ==
    /\ call.fn = "scan_installed_packages" /\ Returned(call)
    /\ Len(call.app_dirs) = 2 /\ Len(Result(call)) = 2

\* ------------------------------------------------- bucket_install: the URLs
\* strings are sequences of characters
HttpsScheme == <<"h", "t", "t", "p", "s", ":", "/", "/">>
HttpScheme == <<"h", "t", "t", "p", ":", "/", "/">>
GitAt == <<"g", "i", "t", "@">>
Www == <<"w", "w", "w", ".">>
DotGit == <<".", "g", "i", "t">>
GithubCom == <<"g", "i", "t", "h", "u", "b", ".", "c", "o", "m">>
GitlabCom == <<"g", "i", "t", "l", "a", "b", ".", "c", "o", "m">>
BitbucketOrg == <<"b", "i", "t", "b", "u", "c", "k", "e", "t", ".", "o", "r", "g">>
OtherHost == <<"x", ".", "i", "o">>

\* str::starts_with, str::ends_with, str::contains
starts_with(s, p) == Len(p) <= Len(s) /\ SubSeq(s, 1, Len(p)) = p
ends_with(s, p) == Len(p) <= Len(s) /\ SubSeq(s, Len(s) - Len(p) + 1, Len(s)) = p
contains(s, p) == \E i \in 0..(Len(s) - Len(p)) : SubSeq(s, i + 1, i + Len(p)) = p

\* url.split(c).count()
SplitCount(s, c) == 1 + Cardinality({i \in 1..Len(s) : s[i] = c})

\* str::trim_start_matches: the prefix is removed as often as it occurs
RECURSIVE trim_start_matches(_, _)
trim_start_matches(s, p) ==
    IF starts_with(s, p) THEN trim_start_matches(SubSeq(s, Len(p) + 1, Len(s)), p) ELSE s

\* the position of the first c in s, 0 if there is none
FirstIndex(s, c) ==
    IF \E i \in 1..Len(s) : s[i] = c
    THEN CHOOSE i \in 1..Len(s) : s[i] = c /\ \A j \in 1..(i - 1) : s[j] /= c
    ELSE 0

\* one of the three hosts occurs in the string
NamesKnownHost(s) == contains(s, GithubCom) \/ contains(s, GitlabCom) \/ contains(s, BitbucketOrg)

\* the captures of git@([^:]+):([^/]+)/(.+?)(?:\.git)?$ on a string that
\* starts with git@: the host ends at the first colon, the user at the next
\* slash, and the repository is the rest without one trailing .git
SshCaptures(url) ==
    LET body == SubSeq(url, Len(GitAt) + 1, Len(url))
        colon == FirstIndex(body, ":")
        after == SubSeq(body, colon + 1, Len(body))
        slash == FirstIndex(after, "/")
        rest == SubSeq(after, slash + 1, Len(after))
    IN  IF colon <= 1 \/ slash <= 1 \/ rest = <<>> THEN None
        ELSE Some([host |-> SubSeq(body, 1, colon - 1),
                   user |-> SubSeq(after, 1, slash - 1),
                   repo |-> IF ends_with(rest, DotGit) /\ Len(rest) > Len(DotGit)
                            THEN SubSeq(rest, 1, Len(rest) - Len(DotGit))
                            ELSE rest])

\* Url::parse on the strings the normalizer builds: an http or https scheme,
\* any further slashes, and a host that is not empty
UrlParses(u) ==
    \E scheme \in {HttpScheme, HttpsScheme} :
        /\ starts_with(u, scheme)
        /\ LET authority == trim_start_matches(SubSeq(u, Len(scheme) + 1, Len(u)), <<"/">>)
           IN  authority /= <<>> /\ Head(authority) /= ":"

UrlErr(why) == [kind |-> "err", val |-> <<>>, why |-> why]
UrlOk(u) == [kind |-> "ok", val |-> u, why |-> ""]

\* the first step of validate_and_normalize_url (bucket_install.rs)
NormalizedUrl(url) ==
    IF starts_with(url, HttpScheme) \/ starts_with(url, HttpsScheme) THEN UrlOk(url)
    ELSE IF NamesKnownHost(url)
    THEN IF starts_with(url, GitAt)
         THEN LET captures == SshCaptures(url)
              IN  IF IsSome(captures)
                  THEN UrlOk(HttpsScheme \o Unwrap(captures).host \o <<"/">>
                                \o Unwrap(captures).user \o <<"/">>
                                \o Unwrap(captures).repo \o DotGit)
                  ELSE UrlErr("Invalid SSH Git URL format")
         ELSE IF SplitCount(url, "/") = 2 /\ ~contains(url, <<".">>)
              THEN UrlOk(HttpsScheme \o GithubCom \o <<"/">> \o url \o DotGit)
              ELSE UrlOk(HttpsScheme \o trim_start_matches(url, Www))
    ELSE UrlErr("URL must be a valid Git repository")

\* validate_and_normalize_url of bucket_install.rs, the one install_bucket calls
validate_and_normalize_url(url) ==
    LET normalized_url == NormalizedUrl(url)
    IN  IF normalized_url.kind = "err" THEN normalized_url
        ELSE LET final_url == IF ~ends_with(normalized_url.val, DotGit)
                                   /\ NamesKnownHost(normalized_url.val)
                                THEN normalized_url.val \o DotGit
                                ELSE normalized_url.val
             IN  IF UrlParses(final_url) THEN UrlOk(final_url)
                 ELSE UrlErr("Invalid URL format")

\* the URLs tried: a prefix, a host, a separator and a path
UrlPrefixes == {<<>>, HttpsScheme, HttpScheme, GitAt, Www}
UrlHosts == {<<>>, GithubCom, BitbucketOrg, OtherHost}
UrlSeparators == {<<>>, <<"/">>, <<":">>}
UserRepo == <<"u", "/", "r">>
UrlPaths == {UserRepo, UserRepo \o DotGit, UserRepo \o <<"/">>, <<"r">>}
Urls == {p \o h \o sep \o path :
            p \in UrlPrefixes, h \in UrlHosts, sep \in UrlSeparators, path \in UrlPaths}

NormalizeCalls == {[fn |-> "validate_and_normalize_url", url |-> u, res |-> <<>>] : u \in Urls}

ValidateAndNormalizeUrlCall ==
    /\ call.fn = "validate_and_normalize_url" /\ Pending(call)
    /\ call' = [call EXCEPT !.res = <<validate_and_normalize_url(call.url)>>]
    /\ UNCHANGED programVars

InitBucketUrl == ProgramInit /\ call \in NormalizeCalls

NextBucketUrl == ValidateAndNormalizeUrlCall

SpecBucketUrl == InitBucketUrl /\ [][NextBucketUrl]_vars

\* https://host/u/r.git
Canonical(host) == HttpsScheme \o host \o <<"/">> \o UserRepo \o DotGit

\* the shorthand is normalized to the GitHub URL
ShorthandNormalized ==
    call.url = UserRepo => Result(call) = UrlOk(Canonical(GithubCom))

\* the full URL without .git is normalized by appending it
FullUrlNormalized ==
    call.url = HttpsScheme \o GithubCom \o <<"/">> \o UserRepo
        => Result(call) = UrlOk(Canonical(GithubCom))

\* the SSH URL of a known host is normalized to the https URL of that host
SshUrlNormalized ==
    \A host \in {GithubCom, BitbucketOrg} :
        call.url = GitAt \o host \o <<":">> \o UserRepo \o DotGit
            => Result(call) = UrlOk(Canonical(host))

\* an accepted URL of a known host ends in .git
AcceptedEndsInDotGit ==
    (Result(call).kind = "ok" /\ NamesKnownHost(Result(call).val))
        => ends_with(Result(call).val, DotGit)

\* a normalized URL is normalized to itself
NormalizeIdempotent ==
    Result(call).kind = "ok"
        => validate_and_normalize_url(Result(call).val) = Result(call)

\* C25: the normalizer of bucket installation maps the shorthand user/repo,
\* the full https URL without .git and the SSH URL to https://host/user/repo.git;
\* every accepted URL of the three hosts ends in .git; normalizing a
\* normalized URL returns it unchanged.
C25_NormalizesToHttpsDotGit ==
    (call.fn = "validate_and_normalize_url" /\ Returned(call))
        => /\ ShorthandNormalized
           /\ FullUrlNormalized
           /\ SshUrlNormalized
           /\ AcceptedEndsInDotGit
           /\ NormalizeIdempotent

\* the shorthand was given and refused
C25_Witness ==
    /\ call.fn = "validate_and_normalize_url" /\ Returned(call)
    /\ call.url = UserRepo
    /\ Result(call).kind = "err"

\* -------------------------------------------- bucket_install: bucket names
\* str::to_lowercase on the characters used here
to_lowercase(s) == ToAsciiLowercase(s)

\* a name returned with its surrounding whitespace
untrimmed(s) == s

\* str::trim: leading and trailing whitespace removed
RECURSIVE trim(_)
trim(s) ==
    IF s = <<>> THEN s
    ELSE IF Head(s) = " " THEN trim(Tail(s))
    ELSE IF s[Len(s)] = " " THEN trim(SubSeq(s, 1, Len(s) - 1))
    ELSE s

\* str::replace(from, ""): the occurrences of from, left to right, removed
RECURSIVE remove_all(_, _)
remove_all(s, from) ==
    IF s = <<>> THEN s
    ELSE IF starts_with(s, from) THEN remove_all(SubSeq(s, Len(from) + 1, Len(s)), from)
    ELSE <<Head(s)>> \o remove_all(Tail(s), from)

ScoopDash == <<"s", "c", "o", "o", "p", "-">>
CapitalScoopDash == <<"S", "c", "o", "o", "p", "-">>
ScoopUnderscore == <<"s", "c", "o", "o", "p", "_">>

\* s without the prefix p when it starts with it
StripOptional(s, p) == IF starts_with(s, p) THEN SubSeq(s, Len(p) + 1, Len(s)) ELSE s

\* the second capture of GIT_URL_REGEX,
\* ^(?:https?://)?(?:www\.)?(?:github\.com|gitlab\.com|bitbucket\.org)/([^/]+)/([^/]+?)(?:\.git)?/?$,
\* or None when the URL does not match: the repository is the shortest
\* segment that leaves only an optional .git and an optional slash
GitUrlRepo(url) ==
    LET no_scheme == StripOptional(StripOptional(url, HttpsScheme), HttpScheme)
        no_www == StripOptional(no_scheme, Www)
        hosts == {h \in {GithubCom, GitlabCom, BitbucketOrg} : starts_with(no_www, h \o <<"/">>)}
    IN  IF hosts = {} THEN None
        ELSE LET path == SubSeq(no_www, Len(CHOOSE h \in hosts : TRUE) + 2, Len(no_www))
                 slash == FirstIndex(path, "/")
                 rest == SubSeq(path, slash + 1, Len(path))
                 no_slash == IF ends_with(rest, <<"/">>)
                             THEN SubSeq(rest, 1, Len(rest) - 1) ELSE rest
                 repo == IF ends_with(no_slash, DotGit) /\ Len(no_slash) > Len(DotGit)
                         THEN SubSeq(no_slash, 1, Len(no_slash) - Len(DotGit))
                         ELSE no_slash
             IN  IF slash <= 1 \/ repo = <<>> \/ contains(repo, <<"/">>) THEN None
                 ELSE Some(repo)

\* extract_bucket_name_from_url; provided_name is None or Some(name)
extract_bucket_name_from_url(url, provided_name) ==
    IF IsSome(provided_name) /\ Unwrap(provided_name) /= <<>>
    THEN UrlOk(trim(to_lowercase(Unwrap(provided_name))))
    ELSE LET captures == GitUrlRepo(url)
         IN  IF IsSome(captures)
             THEN LET clean_name ==
                          to_lowercase(remove_all(remove_all(remove_all(
                              Unwrap(captures), ScoopDash), CapitalScoopDash), ScoopUnderscore))
                  IN  IF clean_name = <<>>
                      THEN UrlErr("Could not extract valid bucket name from URL")
                      ELSE UrlOk(clean_name)
             ELSE UrlErr("Could not extract bucket name from URL")

\* repository names, with and without a marker
RepoNames == {<<"r">>, ScoopDash \o <<"r">>, CapitalScoopDash \o <<"A">>,
              ScoopUnderscore \o <<"r">>, ScoopDash}
RepoUrls ==
    {scheme \o host \o <<"/", "u", "/">> \o repo \o git \o slash :
        scheme \in {<<>>, HttpsScheme}, host \in {GithubCom, OtherHost},
        repo \in RepoNames, git \in {<<>>, DotGit}, slash \in {<<>>, <<"/">>}}
        \cup {UserRepo, HttpsScheme \o GithubCom \o <<"/", "u">>}
ProvidedNames == {None, Some(<<>>), Some(<<"A">>), Some(<<" ", "S", "b", " ">>), Some(<<" ">>)}

ExtractCalls ==
    {[fn |-> "extract_bucket_name_from_url", url |-> u, provided_name |-> n, res |-> <<>>] :
        u \in RepoUrls, n \in ProvidedNames}

ExtractBucketNameFromUrlCall ==
    /\ call.fn = "extract_bucket_name_from_url" /\ Pending(call)
    /\ call' = [call EXCEPT
                  !.res = <<extract_bucket_name_from_url(call.url, call.provided_name)>>]
    /\ UNCHANGED programVars

InitBucketName == ProgramInit /\ call \in ExtractCalls

NextBucketName == ExtractBucketNameFromUrlCall

SpecBucketName == InitBucketName /\ [][NextBucketName]_vars

\* the strings that end url up to an optional .git and an optional slash
Segments(url) ==
    {SubSeq(url, i, j) : i \in 1..Len(url),
                         j \in {k \in 0..Len(url) : Len(url) - k <= Len(DotGit) + 1}}

\* url is scheme, www., host, user, repo, .git and slash put together, the
\* first, second and the last two of them optional
RecognisedAs(url, repo) ==
    \E scheme \in {<<>>, HttpScheme, HttpsScheme}, www \in {<<>>, Www},
       host \in {GithubCom, GitlabCom, BitbucketOrg} :
        LET head == scheme \o www \o host \o <<"/">>
            path == SubSeq(url, Len(head) + 1, Len(url))
        IN  /\ starts_with(url, head)
            /\ \E n \in 1..Len(path), git \in {<<>>, DotGit}, slash \in {<<>>, <<"/">>} :
                 /\ path = SubSeq(path, 1, n) \o <<"/">> \o repo \o git \o slash
                 /\ ~contains(SubSeq(path, 1, n), <<"/">>)
                 /\ repo /= <<>> /\ ~contains(repo, <<"/">>)

\* the repository name the pattern captures: the shortest one
RepositoryName(url) ==
    LET repos == {r \in Segments(url) : RecognisedAs(url, r)}
    IN  IF repos = {} THEN None
        ELSE Some(CHOOSE r \in repos : \A q \in repos : Len(r) <= Len(q))

WithoutMarkers(repo) ==
    remove_all(remove_all(remove_all(repo, ScoopDash), CapitalScoopDash), ScoopUnderscore)

\* what the function answers when no name is provided
NameFromUrl(url) ==
    LET repo == RepositoryName(url)
    IN  IF IsSome(repo) /\ to_lowercase(WithoutMarkers(Unwrap(repo))) /= <<>>
        THEN Result(call) = UrlOk(to_lowercase(WithoutMarkers(Unwrap(repo))))
        ELSE Result(call).kind = "err"

NameProvided == IsSome(call.provided_name) /\ Unwrap(call.provided_name) /= <<>>

\* s without whitespace at its ends, as a part of t between whitespace
TrimmedOf(s, t) ==
    /\ s = <<>> \/ (Head(s) /= " " /\ s[Len(s)] /= " ")
    /\ \E i \in 0..Len(t), j \in 0..Len(t) :
         /\ i + Len(s) + j = Len(t)
         /\ SubSeq(t, i + 1, i + Len(s)) = s
         /\ \A k \in (1..i) \cup ((Len(t) - j + 1)..Len(t)) : t[k] = " "

\* C26 as stated: a non-empty provided name is returned lower-cased whatever
\* the URL; otherwise the repository name of the URL is returned without the
\* scoop markers and lower-cased, and the call fails when the URL is not a
\* recognised repository URL or the cleaned name is empty.
C26_ProvidedNameLowercased ==
    (call.fn = "extract_bucket_name_from_url" /\ Returned(call))
        => IF NameProvided
           THEN Result(call) = UrlOk(to_lowercase(Unwrap(call.provided_name)))
           ELSE NameFromUrl(call.url)

\* C26 amended: a non-empty provided name is returned lower-cased and without
\* its leading and trailing whitespace; the rest as stated.
C26_ProvidedNameLowercasedTrimmed ==
    (call.fn = "extract_bucket_name_from_url" /\ Returned(call))
        => IF NameProvided
           THEN /\ Result(call).kind = "ok"
                /\ TrimmedOf(Result(call).val, to_lowercase(Unwrap(call.provided_name)))
           ELSE NameFromUrl(call.url)

\* a provided name with whitespace around it
C26_Witness ==
    /\ call.fn = "extract_bucket_name_from_url" /\ Returned(call)
    /\ call.provided_name = Some(<<" ", "S", "b", " ">>)
    /\ Result(call) = UrlOk(<<"s", "b">>)

\* ------------------------------------------------------ the two cache locks
\* t holds the installed-packages lock and waits for the versions lock
HoldsInstalledAwaitsVersions(t) ==
    pc[t] = "invalidate_versions" /\ installed_lock = t /\ versions_lock /= 0

\* u holds the versions lock and waits for the installed-packages lock
HoldsVersionsAwaitsInstalled(u) ==
    /\ pc[u] \in {"versions_check", "versions_store", "versioned_check", "versioned_store"}
    /\ versions_lock = u /\ installed_lock /= 0

\* C27: under every interleaving of invalidate_installed_cache with
\* get_package_versions and get_versioned_packages, no task holds the
\* installed-packages lock waiting for the versions lock while another holds
\* the versions lock waiting for the installed-packages lock.
C27_NoLockCycle ==
    \A t, u \in Tasks :
        ~(HoldsInstalledAwaitsVersions(t) /\ HoldsVersionsAwaitsInstalled(u))

\* an invalidation and a versions query each hold the lock the other needs,
\* and no step of either is enabled
C27_Witness ==
    \E t, u \in Tasks :
        /\ HoldsInstalledAwaitsVersions(t)
        /\ HoldsVersionsAwaitsInstalled(u)
        /\ cmd[u] = "get_package_versions"
        /\ ~ENABLED InvalidateVersions(t)
        /\ ~ENABLED VersionsCheck(u)
        /\ ~ENABLED VersionsStore(u)

\* ----------------------------------------------------- answers from the cache
\* the list a full scan of the tree as it is now produces
ScanNow == ScanPackages(fs, scoop_path, ListAppDirs(fs, scoop_path))

\* the fingerprint of the tree as it is now
FingerprintNow == ComputeAppsFingerprint(fs, ListAppDirs(fs, scoop_path))

\* C28: when a query whose fingerprint describes the tree is answered from the
\* cache, the list it returns is the list a full scan of the tree at that
\* moment produces, whatever queries and filesystem changes came before.
C28_CacheAnswerEqualsScan ==
    [][\A t \in Tasks :
        (/\ IsQuery(t) /\ pc[t] = "check_cache" /\ pc'[t] = "done"
         /\ loc[t].fp = FingerprintNow)
            => loc'[t].ret.val = ScanNow]_vars

\* a query was answered from the cache with a list that a scan of the tree
\* does not give, although the stored fingerprint describes the tree
C28_Witness ==
    \E t \in Tasks :
        /\ IsQuery(t) /\ pc[t] = "done" /\ ~loc[t].scanned
        /\ IsSome(installed_packages)
        /\ Unwrap(installed_packages).fingerprint = FingerprintNow
        /\ loc[t].ret = Ok(Unwrap(installed_packages).packages)
        /\ loc[t].ret.val /= ScanNow

\* --------------------------------------------------- versions from the cache
\* C29: a get_package_versions call answered from the cache returns exactly
\* the version directories the package has under the root the call read,
\* whatever filesystem changes, root changes and cache operations came before.
C29_CachedVersionsAreCurrent ==
    [][\A t \in Tasks :
        (/\ cmd[t] = "get_package_versions"
         /\ pc[t] = "versions_check" /\ pc'[t] = "done"
         /\ loc'[t].ret.kind = "ok")
            => /\ PackageDirExists(fs, loc[t].root, loc[t].pkg)
               /\ loc'[t].ret.val = VersionDirs(fs, loc[t].root, loc[t].pkg)]_vars

\* a versions query was answered from the cache under a root that has no
\* apps directory
C29_Witness ==
    \E t \in Tasks :
        /\ cmd[t] = "get_package_versions" /\ pc[t] = "done"
        /\ loc[t].ret.kind = "ok" /\ ~loc[t].scanned
        /\ ~HasAppsDir(scoop_path)
        /\ \A u \in Tasks \ {t} : pc[u] = "idle"

\* ------------------------------------------------------- a failed listing
\* the step of t in which the apps directory is found and its listing fails
ListingFailsIn(t) ==
    /\ cmd'[t] = "get_installed_packages_full"
    /\ pc[t] \in {"idle", "refresh_path_lock"} /\ pc'[t] = "done"
    /\ LET root == IF pc[t] = "idle" THEN scoop_path ELSE loc[t].root
       IN  HasAppsDir(root) /\ ~CanListApps(root)

\* C30 as stated: a query that fails to list the apps directory returns an
\* error and leaves both caches as they were.
C30_FailedListingKeepsCaches ==
    [][\A t \in Tasks :
        ListingFailsIn(t)
            => /\ loc'[t].ret.kind = "err"
               /\ installed_packages' = installed_packages
               /\ package_versions' = package_versions]_vars

\* C30 amended: a query that fails to list the apps directory returns an
\* error and leaves the versions cache as it was; the installed-packages
\* cache is as it was, or empty when the query had first moved to a newly
\* resolved root.
C30_FailedListingKeepsCachesUnlessRootMoved ==
    [][\A t \in Tasks :
        ListingFailsIn(t)
            => /\ loc'[t].ret.kind = "err"
               /\ package_versions' = package_versions
               /\ IF pc[t] = "refresh_path_lock"
                  THEN installed_packages' = None
                  ELSE installed_packages' = installed_packages]_vars

\* a query moved to a newly resolved root, could not list its apps directory
\* and returned the error
C30_Witness ==
    \E t \in Tasks :
        /\ IsQuery(t) /\ pc[t] = "done"
        /\ loc[t].ret = ListFailure
        /\ loc[t].resolutions = 1
        /\ scoop_path = RootLocked
        /\ installed_packages = None

\* ------------------------------------------------------ the debounce window
\* a step of a force refresh on the debounce path: into the branch, or out of
\* it with the cached list
DebouncePathStep(t) ==
    /\ cmd'[t] = "refresh_installed_packages"
    /\ \/ pc[t] = "idle" /\ pc'[t] = "debounce_lock"
       \/ pc[t] = "debounce_lock" /\ pc'[t] = "done"

\* C31: a force refresh answered by the debounce path leaves the last-refresh
\* timestamp and both caches as they are; the timestamp moves only when a
\* force refresh goes on to invalidate and rescan, and then to the time of
\* that refresh.
C31_DebouncedRefreshKeepsState ==
    [][/\ \A t \in Tasks :
            DebouncePathStep(t)
                => /\ last_refresh_time' = last_refresh_time
                   /\ installed_packages' = installed_packages
                   /\ package_versions' = package_versions
       /\ last_refresh_time' /= last_refresh_time
            => /\ last_refresh_time' = now
               /\ \E t \in Tasks :
                    /\ cmd'[t] = "refresh_installed_packages"
                    /\ pc[t] /= "invalidate" /\ pc'[t] = "invalidate"]_vars

\* a force refresh inside the window of an earlier one was answered with the
\* cached list
C31_Witness ==
    \E t \in Tasks :
        /\ IsRefresh(t) /\ pc[t] = "done"
        /\ loc[t].debounced /\ ~loc[t].invalidated
        /\ loc[t].ret.kind = "ok"
        /\ last_refresh_time /= 0 /\ now - last_refresh_time < DebounceMs
        /\ IsSome(installed_packages)

\* ------------------------------------------------------------ cold_start.rs
max_retries == 5

ColdStartFinished == "cold-start-finished"
ScoopReady == "scoop-ready"

ReadyEvents(success) == {[event |-> ColdStartFinished, payload |-> success],
                         [event |-> ScoopReady, payload |-> success]}

is_cold_start_ready == cold_start_done

\* run_cold_start on a page load: swap(true), then either the task that
\* re-emits the ready events or the prefetch task is spawned
RunColdStart(t) ==
    /\ pc[t] = "idle"
    /\ cmd' = [cmd EXCEPT ![t] = "run_cold_start"]
    /\ cold_start_done' = TRUE
    /\ pc' = [pc EXCEPT ![t] = IF cold_start_done THEN "emit_ready" ELSE "prefetch"]
    /\ loc' = [loc EXCEPT ![t] = Begin(t, "run_cold_start")]
    /\ retry_count' = [retry_count EXCEPT ![t] = 0]
    /\ Disturb
    /\ UNCHANGED <<call, streamVars, trayVars, scoop_root_cache, fs, now, scoop_path, stored_path,
                   installed_packages, package_versions, installed_lock,
                   versions_lock, last_refresh_time, droppedFp, staleStored,
                   emitted, prefetched>>

\* the prefetch task calls get_installed_packages_full
ColdStartPrefetch(t) ==
    /\ pc[t] = "prefetch"
    /\ EnsureAppsPath(t, loc[t])
    /\ KeepHist
    /\ UNCHANGED <<call, shellVars, scoop_root_cache, fs, now, installed_packages,
                   package_versions, installed_lock, versions_lock,
                   last_refresh_time, cmd, droppedFp, staleStored>>

\* the match on the prefetch result: Ok goes on to the ready events (the
\* manifest warm-up only logs), Err resets the flag and emits the failure events
ColdStartPrefetched(t) ==
    /\ pc[t] = "done"
    /\ cmd[t] = "run_cold_start"
    /\ IF loc[t].ret.kind = "ok"
       THEN /\ prefetched' = TRUE
            /\ pc' = [pc EXCEPT ![t] = "emit_ready"]
            /\ UNCHANGED <<cold_start_done, emitted, cmd, loc, disturbed>>
       ELSE /\ cold_start_done' = FALSE
            /\ emitted' = emitted \cup ReadyEvents(FALSE)
            /\ pc' = [pc EXCEPT ![t] = "idle"]
            /\ cmd' = [cmd EXCEPT ![t] = "none"]
            /\ loc' = [loc EXCEPT ![t] = NoLoc]
            /\ disturbed' = disturbed \ {t}
            /\ UNCHANGED prefetched
    /\ UNCHANGED <<call, streamVars, trayVars, scoop_root_cache, fs, now, scoop_path, stored_path,
                   installed_packages, package_versions, installed_lock,
                   versions_lock, last_refresh_time, quiet, lastRet, droppedFp,
                   staleStored, retry_count>>

\* emit_ready_events_with_retry(app, true): one turn of the loop per step
EmitReadyEventsWithRetry(t) ==
    /\ pc[t] = "emit_ready"
    /\ IF retry_count[t] < max_retries
       THEN /\ emitted' = emitted \cup ReadyEvents(TRUE)
            /\ retry_count' = [retry_count EXCEPT ![t] = @ + 1]
            /\ UNCHANGED <<pc, cmd, loc, disturbed>>
       ELSE /\ pc' = [pc EXCEPT ![t] = "idle"]
            /\ cmd' = [cmd EXCEPT ![t] = "none"]
            /\ loc' = [loc EXCEPT ![t] = NoLoc]
            /\ disturbed' = disturbed \ {t}
            /\ UNCHANGED <<emitted, retry_count>>
    /\ UNCHANGED <<call, streamVars, trayVars, scoop_root_cache, fs, now, scoop_path, stored_path,
                   installed_packages, package_versions, installed_lock,
                   versions_lock, last_refresh_time, quiet, lastRet, droppedFp,
                   staleStored, cold_start_done, prefetched>>

ColdStartSteps(t) ==
    ColdStartPrefetch(t) \/ ColdStartPrefetched(t) \/ EmitReadyEventsWithRetry(t)

\* page loads, the prefetch they start, and the path setting the prefetch reads
NextColdStart ==
    \/ \E t \in Tasks : RunColdStart(t)
    \/ \E t \in Tasks : ColdStartSteps(t)
    \/ \E t \in Tasks : RefreshScoopPathLock(t)
    \/ \E t \in Tasks : ScanSteps(t)
    \/ \E t \in Tasks : SetScoopPath(t)
    \/ \E t \in Tasks : Return(t)

SpecColdStart == Init /\ [][NextColdStart]_vars

PrefetchRunning(t) ==
    /\ cmd[t] = "run_cold_start"
    /\ pc[t] \in {"prefetch", "refresh_path_lock", "check_cache", "scan",
                  "update_cache", "done"}

\* C32: is_cold_start_ready returns true only after a cold-start prefetch of
\* the installed packages has completed successfully; in particular it is false
\* while the first prefetch is still running
C32_ReadyOnlyAfterPrefetch == is_cold_start_ready => prefetched

\* C32, second half: after a prefetch has failed the flag is false again
\* until the next page load
C32_FailedPrefetchResetsFlag ==
    [][\A t \in Tasks :
          (PrefetchRunning(t) /\ pc[t] = "done" /\ pc'[t] = "idle")
              => ~is_cold_start_ready']_vars

C32_Witness ==
    \E t \in Tasks : PrefetchRunning(t) /\ ~prefetched /\ is_cold_start_ready

SuccessEmitted == \E e \in emitted : e.payload

\* C33: cold-start-finished and scoop-ready are emitted with success = true
\* only after a cold-start prefetch has completed successfully; a run_cold_start
\* made while the first prefetch is in progress emits no success event
C33_SuccessOnlyAfterPrefetch == SuccessEmitted => prefetched

\* a second page load re-emits success while the first prefetch is in flight
C33_Witness ==
    \E t, u \in Tasks :
        /\ PrefetchRunning(t) /\ ~prefetched
        /\ cmd[u] = "run_cold_start" /\ pc[u] = "emit_ready" /\ retry_count[u] > 0
        /\ SuccessEmitted

\* ---------------------------------------------------- commands/powershell.rs
MaxLines == 2

\* markers looked for in the lowercased line
LowercaseMarkers ==
    {<<"e", "r", "r", "o", "r">>,
     <<"f", "a", "i", "l", "e", "d">>,
     <<"e", "x", "c", "e", "p", "t", "i", "o", "n">>,
     <<"c", "a", "n", "n", "o", "t">>,
     <<"c", "o", "u", "l", "d", " ", "n", "o", "t">>,
     <<"n", "o", "t", " ", "f", "o", "u", "n", "d">>,
     <<"a", "c", "c", "e", "s", "s", " ", "t", "o", " ", "t", "h", "e", " ", "p", "a", "t", "h">>,
     <<"d", "e", "n", "i", "e", "d">>}

\* markers looked for in the line as written
ExactMarkers ==
    {<<"R", "e", "m", "o", "v", "e", "-", "I", "t", "e", "m">>,
     <<"A", "c", "c", "e", "s", "s", " ", "t", "o", " ", "t", "h", "e", " ", "p", "a", "t", "h">>,
     <<"i", "s", " ", "d", "e", "n", "i", "e", "d">>}

is_error_line(source, line) ==
    \/ source = "stderr"
    \/ \E m \in LowercaseMarkers : contains(to_lowercase(line), m)
    \/ \E m \in ExactMarkers : contains(line, m)

PlainLine == <<"o", "k">>
CannotLine == <<"C", "a", "n", "n", "o", "t">>
Lines == {PlainLine, CannotLine}

Completed == "completed successfully"
FailedWithErrors == "failed with error(s)"
FailedWithExitCode == "failed with exit code"
Cancelled == "was cancelled by user"
FailedToSpawn == "Failed to spawn command"
FailedToWait == "Failed to wait on child process"

CommandResult(success, message) == [success |-> success, message |-> message]

StreamOk == [kind |-> "ok", message |-> ""]
StreamErr(message) == [kind |-> "err", message |-> message]

\* run_and_stream_command up to the select!: the process is spawned, the
\* channels made, the cancel listener and the two stream handlers set up
RunAndStreamCommand ==
    /\ stream_pc = "idle"
    /\ \E spawned \in BOOLEAN :
         IF spawned
         THEN /\ child' = [state |-> "running", success |-> FALSE]
              /\ stream_pc' = "select"
              /\ UNCHANGED stream_ret
         ELSE /\ stream_pc' = "returned"
              /\ stream_ret' = Some(StreamErr(FailedToSpawn))
              /\ UNCHANGED child
    /\ UNCHANGED <<call, cacheVars, coldVars, trayVars, pipes, produced, error_rx, cancel_rx,
                   finished>>

\* the child writes a line to one of its pipes
ChildWrites ==
    /\ child.state = "running"
    /\ Len(produced) < MaxLines
    /\ \E source \in Sources, line \in Lines :
         /\ pipes' = [pipes EXCEPT ![source] = Append(@, line)]
         /\ produced' = Append(produced, [source |-> source, line |-> line])
    /\ UNCHANGED <<call, cacheVars, coldVars, trayVars, stream_pc, stream_ret, child, error_rx,
                   cancel_rx, finished>>

\* the child exits by itself
ChildExits ==
    /\ child.state = "running"
    /\ \E success \in BOOLEAN : child' = [state |-> "exited", success |-> success]
    /\ UNCHANGED <<call, cacheVars, coldVars, trayVars, stream_pc, stream_ret, pipes, produced,
                   error_rx, cancel_rx, finished>>

\* one turn of a stream handler's loop: the next line is read, sent to the
\* error channel when it is an error line (the send fails once the receiver
\* is gone) and emitted as output
StreamHandlerReads(source) ==
    /\ pipes[source] /= <<>>
    /\ pipes' = [pipes EXCEPT ![source] = Tail(@)]
    /\ error_rx' = IF is_error_line(source, Head(pipes[source])) /\ stream_pc = "select"
                   THEN Append(error_rx, Head(pipes[source]))
                   ELSE error_rx
    /\ UNCHANGED <<call, cacheVars, coldVars, trayVars, stream_pc, stream_ret, child, produced,
                   cancel_rx, finished>>

\* the cancel event arrives: the once-listener sends on the oneshot
CancelOperation ==
    /\ stream_pc = "select"
    /\ ~cancel_rx
    /\ cancel_rx' = TRUE
    /\ UNCHANGED <<call, cacheVars, coldVars, trayVars, stream_pc, stream_ret, child, pipes,
                   produced, error_rx, finished>>

\* message of handle_command_completion
CompletionMessage(was_successful, has_errors) ==
    IF was_successful THEN Completed
    ELSE IF has_errors THEN FailedWithErrors ELSE FailedWithExitCode

\* select! arm child.wait(): handle_command_completion
HandleCommandCompletion ==
    /\ stream_pc = "select"
    /\ child.state = "exited"
    /\ \E waited \in BOOLEAN :
         IF waited
         THEN LET has_errors == error_rx /= <<>>
                  was_successful == child.success /\ ~has_errors
                  message == CompletionMessage(was_successful, has_errors)
              IN  /\ error_rx' = <<>>
                  /\ finished' = Append(finished, CommandResult(was_successful, message))
                  /\ stream_ret' = Some(IF was_successful THEN StreamOk
                                        ELSE StreamErr(message))
         ELSE /\ stream_ret' = Some(StreamErr(FailedToWait))
              /\ UNCHANGED <<error_rx, finished>>
    /\ stream_pc' = "returned"
    /\ UNCHANGED <<call, cacheVars, coldVars, trayVars, child, pipes, produced, cancel_rx>>

\* select! arm cancel_rx: handle_cancellation
HandleCancellation ==
    /\ stream_pc = "select"
    /\ cancel_rx
    /\ child' = IF child.state = "running"
                THEN [state |-> "killed", success |-> FALSE] ELSE child
    /\ finished' = Append(finished, CommandResult(FALSE, Cancelled))
    /\ stream_ret' = Some(StreamErr(Cancelled))
    /\ stream_pc' = "returned"
    /\ UNCHANGED <<call, cacheVars, coldVars, trayVars, pipes, produced, error_rx, cancel_rx>>

\* one streamed command, its process, its stream handlers and the cancel event
NextStream ==
    \/ RunAndStreamCommand
    \/ ChildWrites
    \/ ChildExits
    \/ \E source \in Sources : StreamHandlerReads(source)
    \/ CancelOperation
    \/ HandleCommandCompletion
    \/ HandleCancellation

SpecStream == Init /\ [][NextStream]_vars

Spawned == child.state /= "none"

\* C34: every run_and_stream_command whose process was spawned has emitted
\* exactly one finished event when it returns, none before; after a
\* cancellation that event is the failure "was cancelled by user", and a
\* cancelled command never reports success
C34_ExactlyOneFinishedEvent ==
    /\ stream_pc = "select" => finished = <<>>
    /\ (stream_pc = "returned" /\ Spawned)
         => /\ Len(finished) = 1
            /\ Unwrap(stream_ret).message = Cancelled
                 => finished[1] = CommandResult(FALSE, Cancelled)
            /\ finished[1].success => Unwrap(stream_ret) = StreamOk

\* the wait on the child failed: the command has returned without an event
C34_Witness ==
    /\ stream_pc = "returned" /\ Spawned
    /\ Unwrap(stream_ret) = StreamErr(FailedToWait)
    /\ finished = <<>>

ErrorLineProduced ==
    \E i \in 1..Len(produced) : is_error_line(produced[i].source, produced[i].line)

\* C35: success is reported only when the exit status is success and neither
\* output stream produced a line that is classified as an error line, however
\* the stream handlers interleave with the exit of the process
C35_ErrorLineMeansFailure ==
    \A i \in 1..Len(finished) :
        finished[i].success => child.success /\ ~ErrorLineProduced

\* success was reported while an error line was still unread in a pipe
C35_Witness ==
    /\ stream_pc = "returned"
    /\ finished = <<CommandResult(TRUE, Completed)>>
    /\ \E source \in Sources :
         /\ pipes[source] /= <<>>
         /\ is_error_line(source, Head(pipes[source]))

\* ------------------------------------------------------------------ tray.rs
MaxRequests == 3

\* a check that finds no refresh in progress whatever the flag says
NeverInProgress(in_progress) == FALSE

\* if *in_progress { return Ok(()) }
AlreadyInProgress(in_progress) == in_progress

\* refresh_tray_menu: the flag is tested and set under its lock; then the
\* refresh task is spawned, or the request is skipped
RefreshTrayMenu(t) ==
    /\ tray_pc[t] = "idle"
    /\ tray_requests < MaxRequests
    /\ tray_requests' = tray_requests + 1
    /\ IF AlreadyInProgress(refresh_in_progress)
       THEN /\ tray_skipped' = tray_skipped + 1
            /\ UNCHANGED <<refresh_in_progress, tray_pc>>
       ELSE /\ refresh_in_progress' = TRUE
            /\ tray_pc' = [tray_pc EXCEPT ![t] = "perform"]
            /\ UNCHANGED tray_skipped
    /\ UNCHANGED <<call, cacheVars, coldVars, streamVars, tray_result, tray_menu>>

\* perform_tray_refresh: the menu is rebuilt and set on the tray icon; building
\* it, finding the icon and setting the menu may each fail
PerformTrayRefresh(t) ==
    /\ tray_pc[t] = "perform"
    /\ \E built \in BOOLEAN, tray \in BOOLEAN, set \in BOOLEAN :
         IF built /\ tray /\ set
         THEN /\ tray_menu' = tray_menu + 1
              /\ tray_result' = [tray_result EXCEPT ![t] = "ok"]
         ELSE /\ tray_result' = [tray_result EXCEPT ![t] = "err"]
              /\ UNCHANGED tray_menu
    /\ tray_pc' = [tray_pc EXCEPT ![t] = "reset"]
    /\ UNCHANGED <<call, cacheVars, coldVars, streamVars, refresh_in_progress,
                   tray_skipped, tray_requests>>

\* the refresh task resets the flag whatever the result was
ResetRefreshFlag(t) ==
    /\ tray_pc[t] = "reset"
    /\ refresh_in_progress' = FALSE
    /\ tray_pc' = [tray_pc EXCEPT ![t] = "idle"]
    /\ UNCHANGED <<call, cacheVars, coldVars, streamVars, tray_result, tray_menu,
                   tray_skipped, tray_requests>>

\* refresh requests from the tray menu and from refresh_tray_apps_menu
NextTray ==
    \/ \E t \in Tasks : RefreshTrayMenu(t)
    \/ \E t \in Tasks : PerformTrayRefresh(t)
    \/ \E t \in Tasks : ResetRefreshFlag(t)

SpecTray == Init /\ [][NextTray]_vars

Refreshing == {t \in Tasks : tray_pc[t] /= "idle"}

\* C36: at most one tray-menu refresh runs at a time; a refresh requested
\* while another is in progress is skipped without rebuilding the menu; the
\* in-progress flag is false again after every refresh attempt, successful or
\* failed, so that a later request runs
C36_OneTrayRefreshAtATime ==
    /\ [](/\ Cardinality(Refreshing) <= 1
          /\ refresh_in_progress <=> Refreshing /= {})
    /\ [][/\ tray_requests' /= tray_requests
             => IF Refreshing /= {}
                THEN /\ tray_skipped' = tray_skipped + 1
                     /\ UNCHANGED <<tray_menu, tray_pc, refresh_in_progress>>
                ELSE /\ tray_skipped' = tray_skipped
                     /\ Refreshing' /= {}
          /\ \A t \in Tasks :
               (tray_pc[t] = "reset" /\ tray_pc'[t] = "idle")
                   => ~refresh_in_progress']_vars

\* a request was skipped, an attempt failed, and a later request is running
C36_Witness ==
    \E t, u \in Tasks :
        /\ tray_skipped > 0
        /\ tray_result[t] = "err" /\ tray_pc[t] = "idle"
        /\ tray_pc[u] = "perform"
====
